---- MODULE Spec2Model ----
(***************************************************************************)
(* A model of jaffi, the generator of Rust FFI glue from Java class files. *)
(*                                                                         *)
(* Strings are sequences of characters.  A character is a TLA+ string that *)
(* denotes one Unicode scalar value: an ASCII character denotes itself,    *)
(* the others are written "U+XXXX".                                        *)
(***************************************************************************)
EXTENDS Integers, Sequences, FiniteSets, TLC

VARIABLES
    pc,                  \* position of the operation under way
    name,                \* JniAbi::from: the string to escape
    abi_name,            \* JniAbi::from: the escaped string
    ext_class_file,      \* extract_function_info: the parsed class file
    ext_methods,         \* extract_function_info: the methods selected by the caller
    functions,           \* extract_function_info: the Functions returned
    argument_objects,    \* extract_function_info: the object types returned
    exc_class_file,      \* generate: the class file whose methods declare exceptions
    exc_functions,       \* generate: the Functions extracted from it
    exception_sets,      \* generate: exceptions, the HashSet of the exception sets
    error_types,         \* generate_class_ffi: the error type in each trait method
    marker_types,        \* generate_exceptions: the marker types emitted
    sum_types,           \* generate_exceptions: the sum types emitted
    native_classes,      \* Jaffi: the classes with native methods, as configured
    classes_to_wrap,     \* Jaffi: the classes to generate wrappers for, as configured
    classpath,           \* Jaffi: the search roots and the files under them
    cwd,                 \* the file system: the current directory, "."
    search_result,       \* generate: what search_classpath(&native_classes) returned
    class_ffis,          \* generate: the ClassFfi of the native classes
    argument_types,      \* generate: the types handed to generate_support_types
    types,               \* generate_support_types: the known types
    search_object_types, \* generate_support_types: the work stack, top last
    objects,             \* generate_support_types: the Objects built so far
    already_generated,   \* generate_support_types: the descriptors processed
    output_file,         \* the file system: the output file of generate
    file_before,         \* history: the output file when generate was called
    gen_result,          \* generate: the Result returned
    pushed_new,          \* history: the descriptors pushed as new types, in order
    lookups,             \* history: the descriptors generate_support_types searched, in order
    thrown,              \* generated code: the JThrowable handed to catch
    catch_of,            \* generated code: the type whose catch is called
    caught,              \* generated code: what catch returned
    env_thrown,          \* JNIEnv: the exceptions thrown into the Java caller
    ffi_func,            \* exported function: the Function it was generated from
    impl_result,         \* exported function: what the developer's method returned
    closure_result,      \* exported function: what the guarded closure returned
    throw_calls,         \* exported function: the calls of throw on the error
    panics,              \* history: the payloads of the panics raised, in order
    ffi_return,          \* exported function: the value returned to Java
    escaped,             \* a panic has left the exported function
    user_on_load_fn,     \* Jaffi: the function to call on library load, if any
    onload,              \* generate_java_ffi: the JNI_OnLoad emitted
    load_calls,          \* JNI_OnLoad: the calls it has made, in order
    load_return,         \* JNI_OnLoad: the value returned to the JVM
    wrapper,             \* wrapper method: the Function it was generated from
    call_result,         \* wrapper method: what the call into Java returned
    pending,             \* JNIEnv: the exception pending in the environment
    jni_steps,           \* history: the steps of the exception handler, in order
    wrapper_return       \* wrapper method: what it returned, or its panic

abiVars == <<name, abi_name>>
extVars == <<ext_class_file, ext_methods, functions, argument_objects>>
excVars == <<exc_class_file, exc_functions, exception_sets, error_types,
             marker_types, sum_types>>
genVars == <<native_classes, classes_to_wrap, classpath, cwd, search_result,
             class_ffis, argument_types,
             types, search_object_types, objects, already_generated, pushed_new, lookups,
             output_file, file_before, gen_result>>
ffiVars == <<ffi_func, impl_result, closure_result, throw_calls, panics,
             ffi_return, escaped>>
hookVars == <<user_on_load_fn, onload, load_calls, load_return>>
wrapVars == <<wrapper, call_result, pending, jni_steps, wrapper_return>>
rtVars == <<thrown, catch_of, caught, env_thrown, ffiVars, hookVars, wrapVars>>
vars == <<pc, name, abi_name, ext_class_file, ext_methods, functions, argument_objects,
          exc_class_file, exc_functions, exception_sets, error_types,
          marker_types, sum_types, native_classes, classes_to_wrap, classpath,
          cwd, search_result,
          class_ffis, argument_types, types, search_object_types, objects,
          already_generated, pushed_new, lookups, output_file, file_before, gen_result, thrown, catch_of, caught, env_thrown,
          ffi_func, impl_result, closure_result, throw_calls, panics, ffi_return,
          escaped, user_on_load_fn, onload, load_calls, load_return,
          wrapper, call_result, pending, jni_steps, wrapper_return>>

----------------------------------------------------------------------------
(* The state of an operation that is not under way *)

\* cafebabe::ClassFile, the part that is read: super_class is the sequence of
\* the name of the super class, empty when there is none
ClassFile(this_class, super_class, interfaces, methods) ==
    [this_class |-> this_class, super_class |-> super_class,
     interfaces |-> interfaces, methods |-> methods]

NoClassFile == ClassFile(<<>>, <<>>, <<>>, <<>>)

AbiIdle == name = <<>> /\ abi_name = <<>>

ExtIdle == /\ ext_class_file = NoClassFile
           /\ ext_methods = <<>>
           /\ functions = <<>>
           /\ argument_objects = {}

ExcIdle == /\ exc_class_file = NoClassFile
           /\ exc_functions = <<>>
           /\ exception_sets = {}
           /\ error_types = <<>>
           /\ marker_types = <<>>
           /\ sum_types = <<>>

\* a search root or another path of the file system: a directory with the
\* regular files under it, a regular file with its extension, or a path that
\* does not exist
\* unreadable and malformed are the files of a directory that cannot be read
\* and that hold no class file
DirRoot(files) ==
    [is_dir |-> TRUE, is_file |-> FALSE, extension |-> <<>>, files |-> files,
     unreadable |-> {}, malformed |-> {}]
FileRoot(extension) ==
    [is_dir |-> FALSE, is_file |-> TRUE, extension |-> extension, files |-> <<>>,
     unreadable |-> {}, malformed |-> {}]
NoRoot == [is_dir |-> FALSE, is_file |-> FALSE, extension |-> <<>>, files |-> <<>>,
           unreadable |-> {}, malformed |-> {}]

\* the output file: it does not exist, it holds what an earlier run wrote, it
\* is empty, it holds the start of the rendered text, or all of it
NoFile == "absent"
OldFile == "old"
EmptyFile == "empty"
PartialFile == "partial"
WholeFile == "whole"

\* the Result of generate: none yet, Ok(()), or the Error of the step from
NotReturned == [kind |-> "None", from |-> "", error |-> <<>>]
GenOk == [kind |-> "Ok", from |-> "", error |-> <<>>]
GenErr(from, error) == [kind |-> "Err", from |-> from, error |-> error]

\* search_classpath has not returned
NotSearched == [kind |-> "None", paths |-> <<>>, error |-> <<>>]

GenIdle == /\ native_classes = <<>>
           /\ classes_to_wrap = <<>>
           /\ classpath = <<>>
           /\ cwd = NoRoot
           /\ search_result = NotSearched
           /\ class_ffis = <<>>
           /\ argument_types = {}
           /\ types = {}
           /\ search_object_types = <<>>
           /\ objects = <<>>
           /\ already_generated = {}
           /\ pushed_new = <<>>
           /\ lookups = <<>>
           /\ output_file = NoFile
           /\ file_before = NoFile
           /\ gen_result = NotReturned

\* no JThrowable, no type and no result of catch
NoThrowable == [is_null |-> TRUE, classes |-> {}]
NoCatch == [kind |-> "None", index |-> 0]
NoResult == [kind |-> "None", variant |-> <<>>, throwable |-> NoThrowable]

\* no exported function under way
NoFunction == [name |-> <<>>]
NoOutcome == [kind |-> "None"]

FfiIdle == /\ ffi_func = NoFunction
           /\ impl_result = NoOutcome
           /\ closure_result = "None"
           /\ throw_calls = 0
           /\ panics = <<>>
           /\ ffi_return = "None"
           /\ escaped = FALSE

\* no JNI_OnLoad emitted or run
NoHook == [statements |-> <<>>, result |-> "None"]

HookIdle == /\ user_on_load_fn = <<>>
            /\ onload = NoHook
            /\ load_calls = <<>>
            /\ load_return = "None"

\* no wrapper method under way
WrapIdle == /\ wrapper = NoFunction
            /\ call_result = NoOutcome
            /\ pending = <<>>
            /\ jni_steps = <<>>
            /\ wrapper_return = NoOutcome

RtIdle == /\ thrown = NoThrowable
          /\ catch_of = NoCatch
          /\ caught = NoResult
          /\ env_thrown = <<>>
          /\ FfiIdle
          /\ HookIdle
          /\ WrapIdle

----------------------------------------------------------------------------
(* Bounds of the model *)

MaxLen == 2              \* longest generated input string of JniAbi::from
MaxMethods == 3          \* most methods in the class file given to extract_function_info
MaxThrowing == 2         \* most methods that declare exceptions
MaxThrows == 2           \* most entries in the Exceptions attribute of a method
MaxRefs == 2             \* most references between classes in their public methods
MaxRoots == 2            \* most search roots in the classpath given to search_classpath
MaxDims == 3             \* most dimensions of an array type in a method descriptor

----------------------------------------------------------------------------
(* Characters *)

AsciiLower == {"a","b","c","d","e","f","g","h","i","j","k","l","m",
               "n","o","p","q","r","s","t","u","v","w","x","y","z"}
AsciiUpper == {"A","B","C","D","E","F","G","H","I","J","K","L","M",
               "N","O","P","Q","R","S","T","U","V","W","X","Y","Z"}
AsciiDigit == {"0","1","2","3","4","5","6","7","8","9"}

\* char::is_ascii_alphanumeric
IsAsciiAlphanumeric(ch) == ch \in AsciiLower \cup AsciiUpper \cup AsciiDigit

\* The scalar value of a character.
CodePoint(ch) ==
    CASE ch = "'"       -> 39
      [] ch = "0"       -> 48
      [] ch = "1"       -> 49
      [] ch = "A"       -> 65
      [] ch = "Z"       -> 90
      [] ch = "a"       -> 97
      [] ch = "i"       -> 105
      [] ch = "p"       -> 112
      [] ch = "q"       -> 113
      [] ch = "r"       -> 114
      [] ch = "("       -> 40
      [] ch = ")"       -> 41
      [] ch = "$"       -> 36
      [] ch = "<"       -> 60
      [] ch = ">"       -> 62
      [] ch = "U+00E9"  -> 233
      [] ch = "U+2764"  -> 10084
      [] ch = "U+1F980" -> 129408

HexDigits == <<"0","1","2","3","4","5","6","7","8","9","a","b","c","d","e","f">>

\* char::escape_unicode without its "\u{" and "}": the hexadecimal digits of
\* the scalar value, most significant first, without leading zeros.
RECURSIVE HexOf(_)
HexOf(n) == IF n < 16 THEN <<HexDigits[n + 1]>>
            ELSE HexOf(n \div 16) \o <<HexDigits[(n % 16) + 1]>>

----------------------------------------------------------------------------
(* heck: ToSnakeCase and ToUpperCamelCase, as used by lib.rs and template.rs *)

LowerSeq == <<"a","b","c","d","e","f","g","h","i","j","k","l","m",
              "n","o","p","q","r","s","t","u","v","w","x","y","z">>
UpperSeq == <<"A","B","C","D","E","F","G","H","I","J","K","L","M",
              "N","O","P","Q","R","S","T","U","V","W","X","Y","Z">>

IndexIn(seq, ch) == CHOOSE i \in 1..Len(seq) : seq[i] = ch

ToLowerChar(ch) == IF ch \in AsciiUpper THEN LowerSeq[IndexIn(UpperSeq, ch)] ELSE ch
ToUpperChar(ch) == IF ch \in AsciiLower THEN UpperSeq[IndexIn(LowerSeq, ch)] ELSE ch

ToLowercase(s) == [i \in 1..Len(s) |-> ToLowerChar(s[i])]

\* heck's capitalize: the first character in upper case, the rest in lower case
Capitalize(s) == [i \in 1..Len(s) |-> IF i = 1 THEN ToUpperChar(s[i]) ELSE ToLowerChar(s[i])]

\* str::split(|c| !c.is_alphanumeric()), without the empty pieces (heck's
\* transform emits nothing for an empty piece)
RECURSIVE SplitWords(_, _)
SplitWords(s, cur) ==
    IF s = <<>> THEN (IF cur = <<>> THEN <<>> ELSE <<cur>>)
    ELSE IF IsAsciiAlphanumeric(Head(s)) THEN SplitWords(Tail(s), Append(cur, Head(s)))
    ELSE (IF cur = <<>> THEN <<>> ELSE <<cur>>) \o SplitWords(Tail(s), <<>>)

\* heck's transform, the scan of one piece: the words it is cut into at the
\* lower-to-upper and the acronym boundaries.  init is the start of the word
\* under way, mode the case of the last cased character in it.
RECURSIVE CaseWords(_, _, _, _)
CaseWords(word, i, init, mode) ==
    LET c == word[i] IN
    IF i = Len(word) THEN <<SubSeq(word, init, Len(word))>>
    ELSE LET next == word[i + 1]
             next_mode == IF c \in AsciiLower THEN "Lowercase"
                          ELSE IF c \in AsciiUpper THEN "Uppercase"
                          ELSE mode
         IN  IF next_mode = "Lowercase" /\ next \in AsciiUpper
             THEN <<SubSeq(word, init, i)>> \o CaseWords(word, i + 1, i + 1, "Boundary")
             ELSE IF mode = "Uppercase" /\ c \in AsciiUpper /\ next \in AsciiLower
             THEN <<SubSeq(word, init, i - 1)>> \o CaseWords(word, i + 1, i, "Boundary")
             ELSE CaseWords(word, i + 1, init, next_mode)

RECURSIVE HeckWordsOf(_)
HeckWordsOf(pieces) ==
    IF pieces = <<>> THEN <<>>
    ELSE CaseWords(Head(pieces), 1, 1, "Boundary") \o HeckWordsOf(Tail(pieces))

HeckWords(s) == HeckWordsOf(SplitWords(s, <<>>))

RECURSIVE JoinSnake(_)
JoinSnake(words) ==
    IF words = <<>> THEN <<>>
    ELSE IF Len(words) = 1 THEN ToLowercase(words[1])
    ELSE ToLowercase(words[1]) \o <<"_">> \o JoinSnake(Tail(words))

RECURSIVE JoinCamel(_)
JoinCamel(words) ==
    IF words = <<>> THEN <<>> ELSE Capitalize(words[1]) \o JoinCamel(Tail(words))

\* ToSnakeCase::to_snake_case
ToSnakeCase(s) == JoinSnake(HeckWords(s))

\* ToUpperCamelCase::to_upper_camel_case
ToUpperCamelCase(s) == JoinCamel(HeckWords(s))

----------------------------------------------------------------------------
(* ident.rs *)

KEYWORDS == { <<"a","s">>, <<"a","s","y","n","c">>, <<"a","w","a","i","t">>,
              <<"b","r","e","a","k">>, <<"c","o","n","s","t">>,
              <<"c","o","n","t","i","n","u","e">>, <<"c","r","a","t","e">>,
              <<"d","y","n">>, <<"e","l","s","e">>, <<"e","n","u","m">>,
              <<"e","x","t","e","r","n">>, <<"f","a","l","s","e">>, <<"f","n">>,
              <<"f","o","r">>, <<"i","f">>, <<"i","m","p","l">>, <<"i","n">>,
              <<"l","e","t">>, <<"l","o","o","p">>, <<"m","a","t","c","h">>,
              <<"m","o","d">>, <<"m","o","v","e">>, <<"m","u","t">>, <<"p","u","b">>,
              <<"r","e","f">>, <<"r","e","t","u","r","n">>, <<"s","e","l","f">>,
              <<"s","t","a","t","i","c">>, <<"s","t","r","u","c","t">>,
              <<"t","r","a","i","t">>, <<"t","r","u","e">>, <<"t","y","p","e">>,
              <<"u","n","i","o","n">>, <<"u","n","s","a","f","e">>, <<"u","s","e">>,
              <<"w","h","e","r","e">>, <<"w","h","i","l","e">> }

ILLEGAL_WORDS == { <<"_">>, <<"s","u","p","e","r">>, <<"s","e","l","f">>,
                   <<"S","e","l","f">>, <<"c","r","a","t","e">>, <<>> }

\* make_ident
MakeIdent(ident) ==
    IF ident \in ILLEGAL_WORDS THEN <<"r", "_">> \o ident
    ELSE IF ident \in KEYWORDS THEN <<"r", "#">> \o ident
    ELSE ident

----------------------------------------------------------------------------
(* template.rs: JavaDesc *)

Replace(s, from, to) == [i \in 1..Len(s) |-> IF s[i] = from THEN to ELSE s[i]]

\* impl From<String> for JavaDesc
JavaDescFrom(s) == Replace(s, ".", "/")

\* JavaDesc::escape_for_extern_fn
EscapeForExternFn(desc) == Replace(desc, "/", "_")

\* JavaDesc::class_name: the text after the last '/'
RECURSIVE ClassName(_)
ClassName(desc) ==
    IF \E i \in 1..Len(desc) : desc[i] = "/"
    THEN ClassName(Tail(desc))
    ELSE desc

----------------------------------------------------------------------------
(* template.rs: RustTypeName.  ty = <<>> is the unit type "()" *)

TypeName(path, ty, lifetime) == [path |-> path, ty |-> ty, lifetime |-> lifetime]

\* impl From<&str> for RustTypeName, for a name without a path: s is the name
\* without its "<'j>"
TypeNameFromStr(s, lifetime) == TypeName("", MakeIdent(s), lifetime)

UnitTypeName == TypeName("", <<>>, FALSE)

\* RustTypeName::append: s is the suffix without its "<'j>", s_lifetime says
\* whether it ended with "<'j>"
TypeNameAppend(t, s, s_lifetime) ==
    IF t.ty # <<>> THEN TypeName("", t.ty \o s, s_lifetime \/ t.lifetime)
    ELSE UnitTypeName

\* RustTypeName::prepend
TypeNamePrepend(t, s, s_lifetime) ==
    IF t.ty # <<>> THEN TypeName("", s \o t.ty, s_lifetime \/ t.lifetime)
    ELSE UnitTypeName

----------------------------------------------------------------------------
(* template.rs: ObjectType *)

JavaLangClass     == <<"j","a","v","a","/","l","a","n","g","/","C","l","a","s","s">>
JavaNioByteBuffer == <<"j","a","v","a","/","n","i","o","/","B","y","t","e","B","u","f","f","e","r">>
JavaLangObject    == <<"j","a","v","a","/","l","a","n","g","/","O","b","j","e","c","t">>
JavaLangString    == <<"j","a","v","a","/","l","a","n","g","/","S","t","r","i","n","g">>
JavaLangThrowable == <<"j","a","v","a","/","l","a","n","g","/","T","h","r","o","w","a","b","l","e">>

\* impl From<&JavaDesc> for ObjectType
ObjectTypeFrom(java_desc) ==
    CASE java_desc = JavaLangClass     -> [tag |-> "JClass", desc |-> java_desc]
      [] java_desc = JavaNioByteBuffer -> [tag |-> "JByteBuffer", desc |-> java_desc]
      [] java_desc = JavaLangObject    -> [tag |-> "JObject", desc |-> java_desc]
      [] java_desc = JavaLangString    -> [tag |-> "JString", desc |-> java_desc]
      [] java_desc = JavaLangThrowable -> [tag |-> "JThrowable", desc |-> java_desc]
      [] OTHER                         -> [tag |-> "Object", desc |-> java_desc]

\* ObjectType::as_descriptor
AsDescriptor(obj) == obj.desc

\* ObjectType::to_type_name_base
ToTypeNameBase(obj) ==
    CASE obj.tag = "JClass"      -> TypeName("jni::objects", <<"J","C","l","a","s","s">>, TRUE)
      [] obj.tag = "JByteBuffer" -> TypeName("jni::objects", <<"J","B","y","t","e","B","u","f","f","e","r">>, TRUE)
      [] obj.tag = "JObject"     -> TypeName("jni::objects", <<"J","O","b","j","e","c","t">>, TRUE)
      [] obj.tag = "JString"     -> TypeName("jni::objects", <<"J","S","t","r","i","n","g">>, TRUE)
      [] obj.tag = "JThrowable"  -> TypeName("jni::objects", <<"J","T","h","r","o","w","a","b","l","e">>, TRUE)
      [] OTHER -> TypeNameFromStr(ToUpperCamelCase(EscapeForExternFn(obj.desc)), TRUE)

\* ObjectType::to_jni_type_name
ObjectToJniTypeName(obj) == ToTypeNameBase(obj)

\* ObjectType::to_jni_class_name
ObjectToJniClassName(obj) == TypeNameAppend(ToTypeNameBase(obj), <<"C","l","a","s","s">>, TRUE)

\* ObjectType::to_rs_type_name
ObjectToRsTypeName(obj) ==
    CASE obj.tag = "JClass"      -> TypeName("jni::objects", <<"J","C","l","a","s","s">>, TRUE)
      [] obj.tag = "JByteBuffer" -> TypeName("jni::objects", <<"J","B","y","t","e","B","u","f","f","e","r">>, TRUE)
      [] obj.tag = "JObject"     -> TypeName("jni::objects", <<"J","O","b","j","e","c","t">>, TRUE)
      [] obj.tag = "JString"     -> TypeName("", <<"S","t","r","i","n","g">>, FALSE)
      [] obj.tag = "JThrowable"  -> TypeName("jni::objects", <<"J","T","h","r","o","w","a","b","l","e">>, TRUE)
      [] OTHER -> TypeNameFromStr(ToUpperCamelCase(Replace(obj.desc, "/", "_")), TRUE)

----------------------------------------------------------------------------
(* template.rs: JniType, JavaArray, Return *)

(* A FieldType of the class file is [dimensions, base, object]: dimensions = 0
   is FieldType::Ty, base is the letter of the base type or "L" for an object
   type, whose name is object.  A JniType is [dimensions, ty, obj]:
   dimensions = 0 is JniType::Ty, ty names the BaseJniTy, obj is the
   ObjectType of a Jobject. *)

NoObject == [tag |-> "None", desc |-> <<>>]

\* base_jni_ty_from_java
BaseJniTyFromJava(f) ==
    CASE f.base = "B" -> "Jbyte"
      [] f.base = "C" -> "Jchar"
      [] f.base = "D" -> "Jdouble"
      [] f.base = "F" -> "Jfloat"
      [] f.base = "I" -> "Jint"
      [] f.base = "J" -> "Jlong"
      [] f.base = "S" -> "Jshort"
      [] f.base = "Z" -> "Jboolean"
      [] f.base = "L" -> "Jobject"

\* JniType::from_java
JniTypeFromJava(f) ==
    [dimensions |-> f.dimensions,
     ty         |-> BaseJniTyFromJava(f),
     obj        |-> IF f.base = "L" THEN ObjectTypeFrom(JavaDescFrom(f.object))
                    ELSE NoObject]

\* to_jni_type_name without the test of the dimensions
ArrayToJniTypeNameAnyDimensions(jarray) ==
    IF jarray.ty = "Jbyte"
    THEN TypeName("jaffi_support::arrays", <<"J","a","v","a","B","y","t","e","A","r","r","a","y">>, TRUE)
    ELSE TypeName("jaffi_support::arrays", <<"U","n","s","u","p","p","o","r","t","e","d","A","r","r","a","y">>, TRUE)

\* JavaArray::to_jni_type_name
ArrayToJniTypeName(jarray) ==
    IF jarray.dimensions # 1
    THEN TypeName("jaffi_support::arrays", <<"U","n","s","u","p","p","o","r","t","e","d","A","r","r","a","y">>, TRUE)
    ELSE IF jarray.ty = "Jbyte"
    THEN TypeName("jaffi_support::arrays", <<"J","a","v","a","B","y","t","e","A","r","r","a","y">>, TRUE)
    ELSE TypeName("jaffi_support::arrays", <<"U","n","s","u","p","p","o","r","t","e","d","A","r","r","a","y">>, TRUE)

\* JavaArray::to_rs_type_name
ArrayToRsTypeName(jarray) == ArrayToJniTypeName(jarray)

\* JniType::to_jni_type_name
ToJniTypeName(t) ==
    IF t.dimensions > 0 THEN ArrayToJniTypeName(t)
    ELSE CASE t.ty = "Jbyte"    -> TypeName("jaffi_support", <<"J","a","v","a","B","y","t","e">>, FALSE)
           [] t.ty = "Jchar"    -> TypeName("jaffi_support", <<"J","a","v","a","C","h","a","r">>, FALSE)
           [] t.ty = "Jdouble"  -> TypeName("jaffi_support", <<"J","a","v","a","D","o","u","b","l","e">>, FALSE)
           [] t.ty = "Jfloat"   -> TypeName("jaffi_support", <<"J","a","v","a","F","l","o","a","t">>, FALSE)
           [] t.ty = "Jint"     -> TypeName("jaffi_support", <<"J","a","v","a","I","n","t">>, FALSE)
           [] t.ty = "Jlong"    -> TypeName("jaffi_support", <<"J","a","v","a","L","o","n","g">>, FALSE)
           [] t.ty = "Jshort"   -> TypeName("jaffi_support", <<"J","a","v","a","S","h","o","r","t">>, FALSE)
           [] t.ty = "Jboolean" -> TypeName("jaffi_support", <<"J","a","v","a","B","o","o","l","e","a","n">>, FALSE)
           [] t.ty = "Jobject"  -> ToTypeNameBase(t.obj)

\* JniType::to_rs_type_name
ToRsTypeName(t) ==
    IF t.dimensions > 0 THEN ArrayToRsTypeName(t)
    ELSE CASE t.ty = "Jbyte"    -> TypeName("", <<"i","8">>, FALSE)
           [] t.ty = "Jchar"    -> TypeName("", <<"c","h","a","r">>, FALSE)
           [] t.ty = "Jdouble"  -> TypeName("", <<"f","6","4">>, FALSE)
           [] t.ty = "Jfloat"   -> TypeName("", <<"f","3","2">>, FALSE)
           [] t.ty = "Jint"     -> TypeName("", <<"i","3","2">>, FALSE)
           [] t.ty = "Jlong"    -> TypeName("", <<"i","6","4">>, FALSE)
           [] t.ty = "Jshort"   -> TypeName("", <<"i","1","6">>, FALSE)
           [] t.ty = "Jboolean" -> TypeName("", <<"b","o","o","l">>, FALSE)
           [] t.ty = "Jobject"  -> ObjectToRsTypeName(t.obj)

(* A ReturnDescriptor of the class file is the sequence of its FieldType,
   empty for void; a Return is the sequence of its JniType, empty for Void. *)

\* Return::from_java
ReturnFromJava(result) ==
    IF result = <<>> THEN <<>> ELSE <<JniTypeFromJava(result[1])>>

\* Return::to_jni_type_name
ReturnToJniTypeName(r) ==
    IF r = <<>> THEN TypeName("jaffi_support", <<"J","a","v","a","V","o","i","d">>, FALSE)
    ELSE ToJniTypeName(r[1])

\* Return::to_rs_type_name
ReturnToRsTypeName(r) ==
    IF r = <<>> THEN UnitTypeName ELSE ToRsTypeName(r[1])

----------------------------------------------------------------------------
(* Sequences *)

\* the sequences without repetition of at most n elements of set
RECURSIVE SeqsWithoutRepetition(_, _)
SeqsWithoutRepetition(set, n) ==
    IF n = 0 THEN {<<>>}
    ELSE LET shorter == SeqsWithoutRepetition(set, n - 1)
         IN  shorter \cup
             UNION {{Append(q, x) : x \in {y \in set : \A i \in 1..Len(q) : q[i] # y}} :
                    q \in shorter}

----------------------------------------------------------------------------
(* BTreeSet<JavaDesc>: the order of String *)

\* the characters of a class name in the order of their code
AsciiOrder == <<"$","/","0","1","2","3","4","5","6","7","8","9",
                "A","B","C","D","E","F","G","H","I","J","K","L","M",
                "N","O","P","Q","R","S","T","U","V","W","X","Y","Z","_",
                "a","b","c","d","e","f","g","h","i","j","k","l","m",
                "n","o","p","q","r","s","t","u","v","w","x","y","z">>

CharLess(a, b) == IndexIn(AsciiOrder, a) < IndexIn(AsciiOrder, b)

\* a < b for two strings
RECURSIVE StrLess(_, _)
StrLess(a, b) ==
    IF b = <<>> THEN FALSE
    ELSE IF a = <<>> THEN TRUE
    ELSE IF Head(a) = Head(b) THEN StrLess(Tail(a), Tail(b))
    ELSE CharLess(Head(a), Head(b))

\* BTreeSet::iter: the members in ascending order
RECURSIVE Ascending(_)
Ascending(set) ==
    IF set = {} THEN <<>>
    ELSE LET least == CHOOSE x \in set : \A y \in set \ {x} : StrLess(x, y)
         IN  <<least>> \o Ascending(set \ {least})

----------------------------------------------------------------------------
(* template.rs: JniAbi *)

\* EscapeChar with the arm of the underscore left out: an underscore falls
\* through to the arm of the separators
EscapeCharUnderscoreKept(ch) ==
    CASE ch \in {".", "/", "_"}   -> <<"_">>
      [] ch = ";"                 -> <<"_", "2">>
      [] ch = "["                 -> <<"_", "3">>
      [] IsAsciiAlphanumeric(ch)  -> <<ch>>
      [] OTHER                    -> <<"_", "0">> \o HexOf(CodePoint(ch))

\* EscapeChar with the arm of the alphanumeric characters left out: a letter
\* or a digit falls through to the last arm
EscapeCharWithoutAlphanumericArm(ch) ==
    CASE ch \in {".", "/"}        -> <<"_">>
      [] ch = "_"                 -> <<"_", "1">>
      [] ch = ";"                 -> <<"_", "2">>
      [] ch = "["                 -> <<"_", "3">>
      [] OTHER                    -> <<"_", "0">> \o HexOf(CodePoint(ch))

\* One iteration of the loop of JniAbi::from: what is pushed for ch.
EscapeChar(ch) ==
    CASE ch \in {".", "/"}        -> <<"_">>
      [] ch = "_"                 -> <<"_", "1">>
      [] ch = ";"                 -> <<"_", "2">>
      [] ch = "["                 -> <<"_", "3">>
      [] IsAsciiAlphanumeric(ch)  -> <<ch>>
      [] OTHER                    -> <<"_", "0">> \o HexOf(CodePoint(ch))

\* impl From<S> for JniAbi
RECURSIVE JniAbiFrom(_)
JniAbiFrom(s) == IF s = <<>> THEN <<>>
                 ELSE EscapeChar(Head(s)) \o JniAbiFrom(Tail(s))

----------------------------------------------------------------------------
(* template.rs: FuncAbi *)

\* FuncAbi::with_class
WithClass(self, class) ==
    <<"J","a","v","a","_">> \o EscapeForExternFn(class) \o <<"_">> \o self

\* with_descriptor that strips the opening parenthesis only: the closing
\* parenthesis and the return type are escaped with the parameters
WithDescriptorAndReturn(self, descriptor) ==
    LET stripped == IF descriptor # <<>> /\ Head(descriptor) = "("
                    THEN Tail(descriptor) ELSE descriptor
    IN  self \o <<"_", "_">> \o JniAbiFrom(stripped)

\* FuncAbi::with_descriptor
WithDescriptor(self, descriptor) ==
    LET stripped == IF descriptor # <<>> /\ Head(descriptor) = "("
                    THEN Tail(descriptor) ELSE descriptor
        closing  == {i \in 1..Len(stripped) : stripped[i] = ")"}
        params   == IF closing # {}
                    THEN SubSeq(stripped, 1,
                                (CHOOSE i \in closing : \A j \in closing : i <= j) - 1)
                    ELSE stripped
    IN  self \o <<"_", "_">> \o JniAbiFrom(params)

----------------------------------------------------------------------------
(* cafebabe: the text of a method descriptor *)

RECURSIVE Brackets(_)
Brackets(n) == IF n = 0 THEN <<>> ELSE <<"[">> \o Brackets(n - 1)

FieldTypeToString(f) ==
    Brackets(f.dimensions)
        \o (IF f.base = "L" THEN <<"L">> \o f.object \o <<";">> ELSE <<f.base>>)

RECURSIVE ParametersToString(_)
ParametersToString(ps) ==
    IF ps = <<>> THEN <<>>
    ELSE FieldTypeToString(Head(ps)) \o ParametersToString(Tail(ps))

\* method.descriptor.to_string()
DescriptorToString(descriptor) ==
    <<"(">> \o ParametersToString(descriptor.parameters) \o <<")">>
        \o (IF descriptor.result = <<>> THEN <<"V">>
            ELSE FieldTypeToString(descriptor.result[1]))

\* format!("{index}")
RECURSIVE Decimal(_)
Decimal(n) == IF n < 10 THEN <<HexDigits[n + 1]>>
              ELSE Decimal(n \div 10) \o <<HexDigits[(n % 10) + 1]>>

----------------------------------------------------------------------------
(* lib.rs: extract_function_info *)

InitName == <<"<","i","n","i","t",">">>

\* the fold that counts the selected methods per name
MethodNames(class_file, methods) ==
    LET KeyOf(method) == IF method.name = InitName
                         THEN <<"n","e","w","_">> \o class_file.this_class
                         ELSE method.name
        keys == {KeyOf(methods[i]) : i \in 1..Len(methods)}
    IN  [k \in keys |-> Cardinality({i \in 1..Len(methods) : KeyOf(methods[i]) = k})]

\* method_name of one method
MethodName(class_file, method) ==
    IF method.name = InitName THEN <<"n","e","w","_">> \o class_file.this_class
    ELSE method.name

\* fn_ffi_name with the names counted over every method of the class file
\* instead of the selected ones
FnFfiNameCountingAll(class_file, method_names, method) ==
    LET method_name == MethodName(class_file, method)
        descriptor  == JavaDescFrom(DescriptorToString(method.descriptor))
    IN  IF MethodNames(class_file, class_file.methods)[method_name] > 1
        THEN WithDescriptor(JniAbiFrom(method_name), descriptor)
        ELSE JniAbiFrom(method_name)

\* fn_ffi_name: the long name when the name is counted more than once
FnFfiName(class_file, method_names, method) ==
    LET method_name == MethodName(class_file, method)
        descriptor  == JavaDescFrom(DescriptorToString(method.descriptor))
    IN  IF method_names[method_name] > 1
        THEN WithDescriptor(JniAbiFrom(method_name), descriptor)
        ELSE JniAbiFrom(method_name)

\* result without the case of the constructor: the return of the descriptor
ResultOfDescriptor(class_file, method) == ReturnFromJava(method.descriptor.result)

\* result: a constructor returns the object of its class
ResultOf(class_file, method) ==
    IF method.name # InitName THEN ReturnFromJava(method.descriptor.result)
    ELSE <<[dimensions |-> 0, ty |-> "Jobject",
            obj |-> ObjectTypeFrom(JavaDescFrom(class_file.this_class))]>>

\* arg_types
ArgTypes(method) ==
    [i \in 1..Len(method.descriptor.parameters) |->
        JniTypeFromJava(method.descriptor.parameters[i])]

\* the objects of the arguments and of the result of one method
MethodObjects(class_file, method) ==
    LET tys == ArgTypes(method) \o ResultOf(class_file, method)
    IN  {tys[i].obj.desc : i \in {j \in 1..Len(tys) :
            tys[j].dimensions = 0 /\ tys[j].ty = "Jobject" /\ tys[j].obj.tag = "Object"}}

\* rust_method_names: the entry of a name after it was counted once more
CountRustName(rust_method_names, rust_method_name) ==
    IF rust_method_name \in DOMAIN rust_method_names
    THEN [rust_method_names EXCEPT ![rust_method_name] = @ + 1]
    ELSE rust_method_names @@ (rust_method_name :> 0)

\* dedup of the rust method names
RustMethodName(counted, rust_method_name, index) ==
    IF counted[rust_method_name] = 0 THEN rust_method_name
    ELSE rust_method_name \o <<"_">> \o Decimal(index)

\* the declared exceptions, taking the first entry of each Exceptions
\* attribute only
ExceptionsOfFirstEntry(method) ==
    {JavaDescFrom(method.attributes[a].exceptions[1]) :
        a \in {b \in 1..Len(method.attributes) :
                  /\ method.attributes[b].kind = "Exceptions"
                  /\ method.attributes[b].exceptions # <<>>}}

\* the declared exceptions of a method, as a set of descriptors
ExceptionsOf(method) ==
    LET raw == UNION {
            {method.attributes[a].exceptions[e] :
                e \in 1..Len(method.attributes[a].exceptions)} :
            a \in {b \in 1..Len(method.attributes) :
                      method.attributes[b].kind = "Exceptions"}}
    IN  {JavaDescFrom(x) : x \in raw}

\* the Function built for the method at position index (from 0)
FunctionOf(class_file, method_names, counted, method, index) ==
    LET this_class_desc == JavaDescFrom(class_file.this_class)
        this_class      == [tag |-> "Object", desc |-> this_class_desc]
        fn_ffi_name     == FnFfiName(class_file, method_names, method)
        arg_types       == ArgTypes(method)
        result          == ResultOf(class_file, method)
    IN  [name               |-> method.name,
         object_java_desc   |-> this_class_desc,
         fn_export_ffi_name |-> WithClass(fn_ffi_name, this_class.desc),
         class_ffi_name     |-> ObjectToJniClassName(this_class),
         object_ffi_name    |-> ObjectToJniTypeName(this_class),
         rust_method_name   |-> RustMethodName(counted, ToSnakeCase(fn_ffi_name), index),
         signature          |-> JavaDescFrom(DescriptorToString(method.descriptor)),
         is_constructor     |-> method.name = InitName,
         is_static          |-> "STATIC" \in method.access_flags,
         is_native          |-> "NATIVE" \in method.access_flags,
         arguments          |-> [i \in 1..Len(arg_types) |->
                                   [name  |-> <<"a","r","g">> \o Decimal(i - 1),
                                    ty    |-> ToJniTypeName(arg_types[i]),
                                    rs_ty |-> ToRsTypeName(arg_types[i])]],
         result             |-> ReturnToJniTypeName(result),
         rs_result          |-> ReturnToRsTypeName(result),
         exceptions         |-> ExceptionsOf(method)]

\* the loop over the selected methods, from position i (from 1) on
RECURSIVE ExtractLoop(_, _, _, _, _)
ExtractLoop(class_file, methods, method_names, i, rust_method_names) ==
    IF i > Len(methods) THEN <<>>
    ELSE LET fn_ffi_name == FnFfiName(class_file, method_names, methods[i])
             counted     == CountRustName(rust_method_names, ToSnakeCase(fn_ffi_name))
         IN  <<FunctionOf(class_file, method_names, counted, methods[i], i - 1)>>
                 \o ExtractLoop(class_file, methods, method_names, i + 1, counted)

\* extract_function_info: the functions and the argument objects
ExtractFunctionInfo(class_file, methods) ==
    [functions |-> ExtractLoop(class_file, methods,
                               MethodNames(class_file, methods), 1, <<>>),
     argument_objects |->
        {JavaDescFrom(class_file.this_class)}
            \cup UNION {MethodObjects(class_file, methods[i]) : i \in 1..Len(methods)}]

\* Vec::filter(..).collect()
RECURSIVE SelectSeq2(_, _)
SelectSeq2(seq, keep) ==
    IF seq = <<>> THEN <<>>
    ELSE (IF Head(seq) \in keep THEN <<Head(seq)>> ELSE <<>>) \o SelectSeq2(Tail(seq), keep)

\* the native methods of a class, as generate_native_impls selects them
NativeMethods(class_file) ==
    SelectSeq2(class_file.methods,
               {m \in {class_file.methods[i] : i \in 1..Len(class_file.methods)} :
                    "NATIVE" \in m.access_flags})

\* the public non-native methods of a class, as generate_support_types
\* selects them
PublicMethods(class_file) ==
    SelectSeq2(class_file.methods,
               {m \in {class_file.methods[i] : i \in 1..Len(class_file.methods)} :
                    "NATIVE" \notin m.access_flags /\ "PUBLIC" \in m.access_flags})

----------------------------------------------------------------------------
(* lib.rs, template.rs: the exception sets and the types generated for them *)

\* Jaffi::generate: the non-empty exception sets of the functions, collected
\* into a HashSet
CollectExceptionSets(funcs) ==
    {funcs[i].exceptions : i \in {j \in 1..Len(funcs) : funcs[j].exceptions # {}}}

RECURSIVE ConcatClassNames(_)
ConcatClassNames(descs) ==
    IF descs = <<>> THEN <<>>
    ELSE ClassName(Head(descs)) \o ConcatClassNames(Tail(descs))

\* exception_name_from_set
ExceptionNameFromSet(exceptions) ==
    MakeIdent(ConcatClassNames(Ascending(exceptions)) \o <<"E","r","r">>)

\* generate_class_ffi: the error type of the result of a trait method, none
\* when the function declares no exception
ErrorTypeOf(func) ==
    IF func.exceptions # {} THEN <<ExceptionNameFromSet(func.exceptions)>> ELSE <<>>

\* exception_sets.iter().flat_map(|s| s.iter()), for the order in which the
\* HashSet yields its sets
RECURSIVE FlatMembers(_)
FlatMembers(sets_in_order) ==
    IF sets_in_order = <<>> THEN <<>>
    ELSE Ascending(Head(sets_in_order)) \o FlatMembers(Tail(sets_in_order))

\* generate_exceptions, first loop: one marker type per exception type, in
\* the order in which the HashSet of the types yields them
MarkerTypes(types_in_order) ==
    [i \in 1..Len(types_in_order) |->
        [ident         |-> MakeIdent(ClassName(types_in_order[i])),
         ex_class_name |-> types_in_order[i]]]

\* generate_exceptions: ex_variants of the sum type generated for
\* exception_set
ExVariants(sets_in_order, exception_set) ==
    LET members == FlatMembers(sets_in_order)
    IN  [i \in 1..Len(members) |-> MakeIdent(ClassName(members[i]))]

\* generate_exceptions, second loop: one sum type per exception set
SumTypes(sets_in_order) ==
    [i \in 1..Len(sets_in_order) |->
        [name          |-> ExceptionNameFromSet(sets_in_order[i]),
         exception_set |-> sets_in_order[i],
         variants      |-> ExVariants(sets_in_order, sets_in_order[i])]]

\* the orders in which a HashSet can yield its members
IterationOrders(set) ==
    {q \in SeqsWithoutRepetition(set, Cardinality(set)) : Len(q) = Cardinality(set)}

----------------------------------------------------------------------------
(* lib.rs: the search path, the native classes and the support types *)

(* A root of the classpath is [is_dir, files]: is_dir says that the root is
   a directory, files maps the path of each regular file under it, relative
   to the root, to the class file parsed from it. *)

\* class_to_path
ClassToPath(class_name) == Replace(class_name, ".", "/") \o <<".","c","l","a","s","s">>

\* lookup_from_path, after the test classpath.is_dir()
LookupFromPath(root, class) == root.is_dir /\ class \in DOMAIN root.files

\* the configured roots searched as they are, empty or not
RootsWithoutDefault(configured, current_dir) == configured

\* search_classpath: the roots searched, "." when the classpath is empty
Roots(configured, current_dir) ==
    IF configured = <<>> THEN <<current_dir>> ELSE configured

\* search_classpath, the loop 'search: the position of the first root, from
\* i on, that holds the class; 0 when no root holds it, and -1 when a jar
\* file is reached first (unimplemented!)
RECURSIVE SearchRoots(_, _, _)
SearchRoots(roots, class, i) ==
    IF i > Len(roots) THEN 0
    ELSE IF LookupFromPath(roots[i], class) THEN i
    ELSE IF roots[i].is_file /\ roots[i].extension = <<"j","a","r">> THEN -1
    ELSE SearchRoots(roots, class, i + 1)

\* search_classpath: found tells whether every class was found, and
\* found_classes then holds the root and the path of each class; otherwise
\* either panicked tells that the search reached a jar file, or missing is
\* the path of the first class that no root holds
RECURSIVE SearchClasspath(_, _)
SearchClasspath(roots, classes) ==
    IF classes = <<>>
    THEN [found |-> TRUE, panicked |-> FALSE, found_classes |-> <<>>, missing |-> <<>>]
    ELSE LET class == ClassToPath(Head(classes))
             root  == SearchRoots(roots, class, 1)
             rest  == SearchClasspath(roots, Tail(classes))
         IN  IF root = -1
             THEN [found |-> FALSE, panicked |-> TRUE, found_classes |-> <<>>,
                   missing |-> <<>>]
             ELSE IF root = 0
             THEN [found |-> FALSE, panicked |-> FALSE, found_classes |-> <<>>,
                   missing |-> class]
             ELSE [found |-> rest.found,
                   panicked |-> rest.panicked,
                   found_classes |-> IF rest.found
                                     THEN <<[root |-> root, path |-> class]>>
                                          \o rest.found_classes
                                     ELSE <<>>,
                   missing |-> rest.missing]

\* search_classpath: the Result returned, or the panic
SearchResult(searched) ==
    IF searched.found
    THEN [kind |-> "Ok", paths |-> searched.found_classes, error |-> <<>>]
    ELSE IF searched.panicked
    THEN [kind |-> "Panic", paths |-> <<>>,
          error |-> <<"j","a","r"," ","f","i","l","e","s"," ","f","o","r"," ","c","l","a","s","s","p","a","t","h"," ","n","o","t"," ","y","e","t"," ","s","u","p","p","o","r","t","e","d">>]
    ELSE [kind |-> "Err", paths |-> <<>>,
          error |-> <<"c","o","u","l","d"," ","n","o","t"," ","f","i","n","d"," ","c","l","a","s","s"," ","i","n"," ","c","l","a","s","s","p","a","t","h",":"," ">> \o searched.missing]

\* read_class of a path that search_classpath returned
ReadClass(roots, found_class) == roots[found_class.root].files[found_class.path]

\* read_class: the error of File::open or read_to_end, of the parser, or none
ReadError(roots, found_class) ==
    IF found_class.path \in roots[found_class.root].unreadable
    THEN <<"i","o"," ","e","r","r","o","r">>
    ELSE IF found_class.path \in roots[found_class.root].malformed
    THEN <<"p","a","r","s","e"," ","e","r","r","o","r">>
    ELSE <<>>

\* generate, the loop over the native classes: the error of the first class
\* that cannot be read, none when all can
RECURSIVE FirstReadError(_, _, _)
FirstReadError(roots, classes, i) ==
    IF i > Len(classes) THEN <<>>
    ELSE IF ReadError(roots, classes[i]) # <<>> THEN ReadError(roots, classes[i])
    ELSE FirstReadError(roots, classes, i + 1)

\* generate_native_impls without the early return: a class without native
\* methods gets a ClassFfi without functions and adds itself to the types
GenerateNativeImplsWithoutEarlyReturn(class_file) ==
    LET native_methods == NativeMethods(class_file)
        info       == ExtractFunctionInfo(class_file, native_methods)
        trait_name == ClassName(class_file.this_class) \o <<"R","s">>
    IN  [class_ffi |-> <<[class_name |-> class_file.this_class,
                          trait_name |-> trait_name,
                          trait_impl |-> trait_name \o <<"I","m","p","l">>,
                          functions  |-> info.functions]>>,
         objects |-> info.argument_objects]

\* generate_native_impls: the ClassFfi, none when the class has no native
\* method, and the types its functions refer to
GenerateNativeImpls(class_file) ==
    LET native_methods == NativeMethods(class_file)
        info       == ExtractFunctionInfo(class_file, native_methods)
        trait_name == ClassName(class_file.this_class) \o <<"R","s">>
    IN  IF native_methods = <<>> THEN [class_ffi |-> <<>>, objects |-> {}]
        ELSE [class_ffi |-> <<[class_name |-> class_file.this_class,
                               trait_name |-> trait_name,
                               trait_impl |-> trait_name \o <<"I","m","p","l">>,
                               functions  |-> info.functions]>>,
              objects |-> info.argument_objects]

\* generate, the loop over the native classes found: the ClassFfi and the
\* argument types collected from position i on
RECURSIVE NativeImpls(_, _, _)
NativeImpls(roots, classes, i) ==
    IF i > Len(classes) THEN [class_ffis |-> <<>>, argument_types |-> {}]
    ELSE LET one  == GenerateNativeImpls(ReadClass(roots, classes[i]))
             rest == NativeImpls(roots, classes, i + 1)
         IN  [class_ffis     |-> one.class_ffi \o rest.class_ffis,
              argument_types |-> one.objects \cup rest.argument_types]

\* the descriptors of the configured class names
DescsOf(class_names) == [i \in 1..Len(class_names) |-> JavaDescFrom(class_names[i])]

\* classes_to_wrap that holds every known type as well
ClassesToWrapAndKnownTypes(to_wrap, native) ==
    {JavaDescFrom(to_wrap[i]) : i \in 1..Len(to_wrap)}
        \cup {JavaDescFrom(native[i]) : i \in 1..Len(native)}
        \cup types

\* generate_support_types: classes_to_wrap, the descriptors of the classes
\* to wrap and of the native classes
ClassesToWrap(to_wrap, native) ==
    {JavaDescFrom(to_wrap[i]) : i \in 1..Len(to_wrap)}
        \cup {JavaDescFrom(native[i]) : i \in 1..Len(native)}

\* impl From<ObjectType> for Object
ObjectFrom(ty) ==
    [java_name         |-> AsDescriptor(ty),
     class_name        |-> TypeNameAppend(ObjectToJniClassName(ty), <<>>, TRUE),
     obj_name          |-> TypeNameAppend(ObjectToJniTypeName(ty), <<>>, TRUE),
     static_trait_name |-> TypeNamePrepend(ObjectToRsTypeName(ty), <<"S","t","a","t","i","c">>, FALSE),
     methods           |-> <<>>,
     interfaces        |-> <<>>]

\* every type pushed whether it is known or not
NewTypesAll(new_types, known) == new_types

\* generate_support_types: the types of new_types that are pushed and added
\* to the known types
NewTypes(new_types, known) == new_types \ known

\* every class treated as a class to wrap
WrapMethodsAlways(object_desc, to_wrap) == TRUE

\* generate_support_types: wrap_methods
WrapMethods(object_desc, to_wrap) == object_desc \in to_wrap

\* the super class and the interfaces of the class file, known or not
DeclaredInterfaces(class_file, known) ==
    LET declared == class_file.super_class \o class_file.interfaces
    IN  [i \in 1..Len(declared) |-> JavaDescFrom(declared[i])]

\* the interfaces of the class file that are known types, without its super
\* class
KnownInterfacesWithoutSuperClass(class_file, known) ==
    SelectSeq2([i \in 1..Len(class_file.interfaces) |->
                   JavaDescFrom(class_file.interfaces[i])], known)

\* generate_support_types: the super class and the interfaces of the class
\* file that are known types, in the order of the class file
KnownInterfaces(class_file, known) ==
    LET declared == class_file.super_class \o class_file.interfaces
    IN  SelectSeq2([i \in 1..Len(declared) |-> JavaDescFrom(declared[i])], known)

\* generate_support_types: the names recorded in object.interfaces
InterfaceNames(interfaces) ==
    [i \in 1..Len(interfaces) |-> TypeNameFromStr(ToUpperCamelCase(interfaces[i]), FALSE)]

\* generate_support_types as a function, for the HashSets that yield their
\* members in ascending order: the loop from the work stack, the known types,
\* the descriptors processed and the Objects built so far; a class to wrap
\* that is not found ends the loop with the error in place of the Objects
RECURSIVE SupportTypesLoop(_, _, _, _, _, _)
SupportTypesLoop(roots, to_wrap, stack, known, done, built) ==
    IF stack = <<>> THEN [ok |-> TRUE, objects |-> built]
    ELSE LET object_desc == stack[Len(stack)]
             below       == SubSeq(stack, 1, Len(stack) - 1)
         IN  IF object_desc \in done
             THEN SupportTypesLoop(roots, to_wrap, below, known, done, built)
             ELSE IF ~WrapMethods(object_desc, to_wrap)
             THEN SupportTypesLoop(roots, to_wrap, below, known, done \cup {object_desc},
                                   Append(built, ObjectFrom(ObjectTypeFrom(object_desc))))
             ELSE IF ~SearchClasspath(roots, <<object_desc>>).found
             THEN [ok |-> FALSE, objects |-> <<>>]
             ELSE LET class_file ==
                          ReadClass(roots,
                                    SearchClasspath(roots, <<object_desc>>).found_classes[1])
                      info  == ExtractFunctionInfo(class_file, PublicMethods(class_file))
                      new   == NewTypes(info.argument_objects, known)
                      known_interfaces == KnownInterfaces(class_file, known \cup new)
                  IN  SupportTypesLoop(roots, to_wrap,
                                       below \o Ascending(new) \o known_interfaces,
                                       known \cup new, done \cup {object_desc},
                                       Append(built,
                                              [ObjectFrom(ObjectTypeFrom(object_desc)) EXCEPT
                                                  !.methods = info.functions,
                                                  !.interfaces =
                                                      InterfaceNames(known_interfaces)]))

----------------------------------------------------------------------------
(* The strings JniAbi::from is applied to *)

AbiAlphabet == {"a", "Z", "0", "1", "/", ".", "_", ";", "[", "'",
                "U+2764", "U+1F980"}

RECURSIVE StringsUpTo(_, _)
StringsUpTo(alphabet, n) ==
    IF n = 0 THEN {<<>>}
    ELSE LET shorter == StringsUpTo(alphabet, n - 1)
         IN  shorter \cup {Append(s, ch) : s \in shorter, ch \in alphabet}

AbiInputs == StringsUpTo(AbiAlphabet, MaxLen)
             \cup {<<"p",".","q",".","r",".","A">>,
                   <<"i","U+2764","'","U+1F980">>}

InitAbi == /\ pc = "abi_start"
           /\ name \in AbiInputs
           /\ abi_name = <<>>
           /\ ExtIdle /\ ExcIdle /\ GenIdle /\ RtIdle

\* JniAbi::from(name)
EscapeName == /\ pc = "abi_start"
              /\ abi_name' = JniAbiFrom(name)
              /\ pc' = "abi_done"
              /\ UNCHANGED <<name, extVars, excVars, genVars, rtVars>>

NextAbi == EscapeName

SpecAbi == InitAbi /\ [][NextAbi]_vars

----------------------------------------------------------------------------
(* The class files extract_function_info is applied to *)

Ty(base) == [dimensions |-> 0, base |-> base, object |-> <<>>]
ObjectTy(object) == [dimensions |-> 0, base |-> "L", object |-> object]
ArrayTy(dimensions, base) == [dimensions |-> dimensions, base |-> base, object |-> <<>>]

Method(method_name, access_flags, parameters, result) ==
    [name |-> method_name, access_flags |-> access_flags,
     descriptor |-> [parameters |-> parameters, result |-> result],
     attributes |-> <<>>]

MethodPool ==
    { Method(<<"f">>, {"NATIVE"}, <<Ty("I"), ObjectTy(JavaLangString)>>, <<Ty("D")>>),
      Method(<<"f">>, {"NATIVE"}, <<Ty("I"), ObjectTy(JavaLangObject)>>, <<Ty("D")>>),
      Method(<<"f">>, {"PUBLIC"}, <<Ty("I")>>, <<>>),
      Method(InitName, {"NATIVE"}, <<Ty("I")>>, <<>>),
      Method(InitName, {"PUBLIC"}, <<>>, <<>>),
      Method(InitName, {"PUBLIC"}, <<ObjectTy(<<"p","/","B">>)>>, <<>>),
      Method(<<"g","_","h">>, {"NATIVE", "STATIC"}, <<ArrayTy(1, "B")>>, <<ObjectTy(<<"p","/","B">>)>>),
      Method(<<"n","e","w","_","B">>, {"PUBLIC"}, <<>>, <<Ty("J")>>),
      Method(<<"S","e","l","f">>, {"PUBLIC", "STATIC"}, <<>>, <<ObjectTy(<<"q","/","C">>)>>),
      Method(<<"s","e","l","f">>, {"PUBLIC"}, <<>>, <<>>),
      Method(<<"s","e","l","f","_">>, {"PUBLIC"}, <<>>, <<>>) }

ExtClasses == { <<"p","/","q","/","r","/","A">>, <<"p","/","q","_","r","/","A">>, <<"B">> }

InitExt == /\ pc = "ext_start"
           /\ \E this_class \in ExtClasses :
              \E ms \in SeqsWithoutRepetition(MethodPool, MaxMethods) :
                 ext_class_file = ClassFile(this_class, <<>>, <<>>, ms)
           /\ ext_methods = <<>>
           /\ functions = <<>>
           /\ argument_objects = {}
           /\ AbiIdle /\ ExcIdle /\ GenIdle /\ RtIdle

\* extract_function_info applied to the selected methods
Extract(selected) ==
    /\ ext_methods' = selected
    /\ functions' = ExtractFunctionInfo(ext_class_file, selected).functions
    /\ argument_objects' = ExtractFunctionInfo(ext_class_file, selected).argument_objects
    /\ pc' = "ext_done"
    /\ UNCHANGED <<ext_class_file, abiVars, excVars, genVars, rtVars>>

\* generate_native_impls: the native methods, nothing to do when there is none
ExtractNative ==
    /\ pc = "ext_start"
    /\ NativeMethods(ext_class_file) # <<>>
    /\ Extract(NativeMethods(ext_class_file))

\* generate_support_types: the public methods that are not native
ExtractPublic ==
    /\ pc = "ext_start"
    /\ Extract(PublicMethods(ext_class_file))

NextExt == ExtractNative \/ ExtractPublic

SpecExt == InitExt /\ [][NextExt]_vars

----------------------------------------------------------------------------
(* The array types extract_function_info is applied to *)

\* the array types of a method descriptor: every base type and two classes
\* as the element, in 1 to MaxDims dimensions
ArrayShapes ==
    {ArrayTy(dimensions, base) :
        dimensions \in 1..MaxDims, base \in {"B", "C", "D", "F", "I", "J", "S", "Z"}}
      \cup {[dimensions |-> dimensions, base |-> "L", object |-> object] :
              dimensions \in 1..MaxDims, object \in {JavaLangString, <<"p","/","B">>}}

\* a class with one native method that takes an array and returns one
InitArr ==
    /\ pc = "ext_start"
    /\ \E parameter \in ArrayShapes, result \in ArrayShapes :
          ext_class_file =
              ClassFile(<<"p","/","A">>, <<>>, <<>>,
                        <<Method(<<"f">>, {"NATIVE"}, <<parameter>>, <<result>>)>>)
    /\ ext_methods = <<>>
    /\ functions = <<>>
    /\ argument_objects = {}
    /\ AbiIdle /\ ExcIdle /\ GenIdle /\ RtIdle

NextArr == ExtractNative

SpecArr == InitArr /\ [][NextArr]_vars

----------------------------------------------------------------------------
(* The methods that declare exceptions, and what is generated for them *)

ExceptionPool == { <<"a","/","E">>, <<"b","/","E">>, <<"a","/","F">>, <<"a","/","E","F">> }

\* the attributes of a method whose Exceptions attribute holds throws, in
\* this order and with these repetitions; no such attribute when it is empty
ThrowingAttributes(throws) ==
    IF throws = <<>> THEN <<[kind |-> "Deprecated", exceptions |-> <<>>]>>
    ELSE <<[kind |-> "Deprecated", exceptions |-> <<>>],
           [kind |-> "Exceptions", exceptions |-> throws]>>

ThrowingMethod(k, throws) ==
    [name |-> <<"m", HexDigits[k + 1]>>, access_flags |-> {"NATIVE", "STATIC"},
     descriptor |-> [parameters |-> <<>>, result |-> <<>>],
     attributes |-> ThrowingAttributes(throws)]

ThrowsLists == StringsUpTo(ExceptionPool, MaxThrows)

InitExc ==
    /\ pc = "exc_start"
    /\ \E n \in 1..MaxThrowing :
       \E throws \in [1..n -> ThrowsLists] :
          exc_class_file = ClassFile(<<"p","/","T">>, <<>>, <<>>,
                                     [k \in 1..n |-> ThrowingMethod(k, throws[k])])
    /\ exc_functions = <<>>
    /\ exception_sets = {}
    /\ error_types = <<>>
    /\ marker_types = <<>>
    /\ sum_types = <<>>
    /\ AbiIdle /\ ExtIdle /\ GenIdle /\ RtIdle

\* generate_native_impls: the Functions of the native methods
ExtractThrowing ==
    /\ pc = "exc_start"
    /\ exc_functions' =
          ExtractFunctionInfo(exc_class_file, NativeMethods(exc_class_file)).functions
    /\ pc' = "exc_extracted"
    /\ UNCHANGED <<exc_class_file, exception_sets, error_types, marker_types,
                   sum_types, abiVars, extVars, genVars, rtVars>>

\* generate: collect all the exception types
CollectExceptions ==
    /\ pc = "exc_extracted"
    /\ exception_sets' = CollectExceptionSets(exc_functions)
    /\ pc' = "exc_collected"
    /\ UNCHANGED <<exc_class_file, exc_functions, error_types, marker_types,
                   sum_types, abiVars, extVars, genVars, rtVars>>

\* generate_java_ffi: the trait methods and the exception types
GenerateJavaFfi ==
    /\ pc = "exc_collected"
    /\ error_types' = [i \in 1..Len(exc_functions) |-> ErrorTypeOf(exc_functions[i])]
    /\ \E types_in_order \in IterationOrders(UNION exception_sets) :
          marker_types' = MarkerTypes(types_in_order)
    /\ \E sets_in_order \in IterationOrders(exception_sets) :
          sum_types' = SumTypes(sets_in_order)
    /\ pc' = "exc_done"
    /\ UNCHANGED <<exc_class_file, exc_functions, exception_sets, abiVars, extVars,
                   genVars, rtVars>>

NextExc == ExtractThrowing \/ CollectExceptions \/ GenerateJavaFfi

SpecExc == InitExc /\ [][NextExc]_vars

----------------------------------------------------------------------------
(* The configurations and the class files of a run of generate *)

ClassA == <<"p","/","A">>
ClassB == <<"p","/","B">>
ClassC == <<"p","/","C">>
ClassD == <<"p","/","D">>          \* referred to by private methods and in arrays only

GenDescs == {ClassA, ClassB, ClassC}

\* the names of the classes as the configuration gives them, with dots
ConfiguredNames(descs) ==
    LET in_order == Ascending(descs)
    IN  [i \in 1..Len(in_order) |-> Replace(in_order[i], "/", ".")]

\* the references from the public methods of a class to another class
RefSets == {refs \in SUBSET {r \in GenDescs \X GenDescs : r[1] # r[2]} :
               Cardinality(refs) <= MaxRefs}

\* the super class and the interfaces of the classes
Extends(super_class, interfaces) == [super_class |-> super_class, interfaces |-> interfaces]

Plain == Extends(<<JavaLangObject>>, <<>>)

Hierarchies ==
    { [c \in GenDescs |-> Plain],
      [c \in GenDescs |-> IF c = ClassC THEN Extends(<<ClassA>>, <<ClassB>>) ELSE Plain],
      [c \in GenDescs |-> IF c = ClassA THEN Extends(<<ClassB>>, <<>>)
                          ELSE IF c = ClassB THEN Extends(<<ClassA>>, <<>>) ELSE Plain] }

\* the methods every class has: a private one, and a public one that takes
\* an array of objects
CommonMethods ==
    << Method(<<"h">>, {"PRIVATE"}, <<ObjectTy(ClassD)>>, <<>>),
       Method(<<"w">>, {"PUBLIC"}, <<[dimensions |-> 1, base |-> "L", object |-> ClassD]>>, <<>>) >>

\* the native methods of the classes
NativeMethodsOf(c) ==
    IF c = ClassA
    THEN <<Method(<<"n">>, {"PUBLIC", "NATIVE"}, <<ObjectTy(ClassB)>>, <<ObjectTy(JavaLangString)>>)>>
    ELSE IF c = ClassB
    THEN <<Method(<<"n">>, {"NATIVE", "STATIC"}, <<>>, <<ObjectTy(ClassC)>>)>>
    ELSE <<>>

\* the public method of class c that refers to class r: r is the type of the
\* result when r comes after c, and of an argument when it does not
ReferringMethod(c, r) ==
    IF StrLess(c, r)
    THEN Method(<<"u">> \o ClassName(r), {"PUBLIC"}, <<>>, <<ObjectTy(r)>>)
    ELSE Method(<<"u">> \o ClassName(r), {"PUBLIC"},
                <<ObjectTy(r), ObjectTy(JavaLangString)>>, <<>>)

GenClassFile(c, refs, hierarchy) ==
    LET referred == Ascending({r \in GenDescs : <<c, r>> \in refs})
    IN  ClassFile(c, hierarchy[c].super_class, hierarchy[c].interfaces,
                  CommonMethods \o NativeMethodsOf(c)
                      \o [i \in 1..Len(referred) |-> ReferringMethod(c, referred[i])])

\* a directory that holds the class files of the classes in present
Directory(present, refs, hierarchy) ==
    DirRoot([path \in {ClassToPath(c) : c \in present} |->
                GenClassFile(CHOOSE c \in present : ClassToPath(c) = path,
                             refs, hierarchy)])

InitGen ==
    /\ pc = "gen_start"
    /\ \E to_wrap \in SUBSET GenDescs : classes_to_wrap = ConfiguredNames(to_wrap)
    /\ \E native \in {n \in SUBSET GenDescs : Cardinality(n) <= 1} :
          native_classes = ConfiguredNames(native)
    /\ \E refs \in RefSets, hierarchy \in Hierarchies, absent \in {{}, {ClassB}} :
          classpath = <<Directory(GenDescs \ absent, refs, hierarchy)>>
    /\ cwd = DirRoot(<<>>)
    /\ search_result = NotSearched
    /\ class_ffis = <<>>
    /\ argument_types = {}
    /\ types = {}
    /\ search_object_types = <<>>
    /\ objects = <<>>
    /\ already_generated = {}
    /\ pushed_new = <<>>
    /\ lookups = <<>>
    /\ output_file = OldFile
    /\ file_before = OldFile
    /\ gen_result = NotReturned
    /\ AbiIdle /\ ExtIdle /\ ExcIdle /\ RtIdle

genConfig == <<native_classes, classes_to_wrap, classpath, cwd, file_before>>

\* generate: a native class is not found in the classpath
NativeClassNotFound ==
    /\ pc = "gen_start"
    /\ LET classes == SearchClasspath(Roots(classpath, cwd), DescsOf(native_classes))
       IN  /\ ~classes.found
           /\ ~classes.panicked
           /\ search_result' = SearchResult(classes)
           /\ gen_result' = GenErr("search_classpath", SearchResult(classes).error)
    /\ pc' = "gen_failed"
    /\ UNCHANGED <<genConfig, output_file, class_ffis, argument_types, types, search_object_types,
                   objects, already_generated, pushed_new, lookups, abiVars, extVars, excVars, rtVars>>

\* generate: the classes to wrap, then the native classes, each read and
\* handed to generate_native_impls
GenerateNatives ==
    /\ pc = "gen_start"
    /\ LET classes == SearchClasspath(Roots(classpath, cwd), DescsOf(native_classes))
           impls   == NativeImpls(Roots(classpath, cwd), classes.found_classes, 1)
       IN  /\ classes.found
           /\ FirstReadError(Roots(classpath, cwd), classes.found_classes, 1) = <<>>
           /\ search_result' = SearchResult(classes)
           /\ class_ffis' = impls.class_ffis
           /\ argument_types' =
                 {JavaDescFrom(classes_to_wrap[i]) : i \in 1..Len(classes_to_wrap)}
                     \cup impls.argument_types
    /\ pc' = "gen_natives"
    /\ UNCHANGED <<genConfig, output_file, gen_result, types, search_object_types, objects, already_generated,
                   pushed_new, lookups, abiVars, extVars, excVars, rtVars>>

\* generate_support_types, up to the loop: the work stack holds the types in
\* the order in which the HashSet yields them
StartSupportTypes ==
    /\ pc = "gen_natives"
    /\ types' = argument_types
    /\ search_object_types' \in IterationOrders(argument_types)
    /\ objects' = <<>>
    /\ already_generated' = {}
    /\ pc' = "gen_search"
    /\ UNCHANGED <<genConfig, output_file, gen_result, search_result, class_ffis,
                   argument_types, pushed_new, lookups,
                   abiVars, extVars, excVars, rtVars>>

\* the top of the work stack, and the stack below it
Top == search_object_types[Len(search_object_types)]
Below == SubSeq(search_object_types, 1, Len(search_object_types) - 1)

\* generate_support_types, one turn of the loop: the type popped was
\* processed before
PopGenerated ==
    /\ pc = "gen_search"
    /\ search_object_types # <<>>
    /\ Top \in already_generated
    /\ search_object_types' = Below
    /\ UNCHANGED <<pc, genConfig, output_file, gen_result, search_result, class_ffis, argument_types, types, objects,
                   already_generated, pushed_new, lookups, abiVars, extVars, excVars, rtVars>>

\* one turn of the loop: the type popped is not a class to wrap
PopUnwrapped ==
    /\ pc = "gen_search"
    /\ search_object_types # <<>>
    /\ Top \notin already_generated
    /\ ~WrapMethods(Top, ClassesToWrap(classes_to_wrap, native_classes))
    /\ already_generated' = already_generated \cup {Top}
    /\ search_object_types' = Below
    /\ objects' = Append(objects, ObjectFrom(ObjectTypeFrom(Top)))
    /\ UNCHANGED <<pc, genConfig, output_file, gen_result, search_result, class_ffis, argument_types, types, pushed_new, lookups,
                   abiVars, extVars, excVars, rtVars>>

\* one turn of the loop: the type popped is a class to wrap and its class
\* file is not found
PopWrappedNotFound ==
    /\ pc = "gen_search"
    /\ search_object_types # <<>>
    /\ Top \notin already_generated
    /\ WrapMethods(Top, ClassesToWrap(classes_to_wrap, native_classes))
    /\ ~SearchClasspath(Roots(classpath, cwd), <<Top>>).found
    /\ ~SearchClasspath(Roots(classpath, cwd), <<Top>>).panicked
    /\ already_generated' = already_generated \cup {Top}
    /\ search_object_types' = Below
    /\ gen_result' = GenErr("search_classpath",
                            SearchResult(SearchClasspath(Roots(classpath, cwd), <<Top>>)).error)
    /\ lookups' = Append(lookups, Top)
    /\ pc' = "gen_failed"
    /\ UNCHANGED <<genConfig, output_file, search_result, class_ffis, argument_types, types, objects,
                   pushed_new,
                   abiVars, extVars, excVars, rtVars>>

\* one turn of the loop: the type popped is a class to wrap; its public
\* methods are extracted, the new types and the known interfaces pushed
PopWrapped ==
    /\ pc = "gen_search"
    /\ search_object_types # <<>>
    /\ Top \notin already_generated
    /\ WrapMethods(Top, ClassesToWrap(classes_to_wrap, native_classes))
    /\ LET class == SearchClasspath(Roots(classpath, cwd), <<Top>>)
       IN  /\ class.found
           /\ ReadError(Roots(classpath, cwd), class.found_classes[1]) = <<>>
           /\ LET class_file == ReadClass(Roots(classpath, cwd), class.found_classes[1])
                  info       == ExtractFunctionInfo(class_file, PublicMethods(class_file))
                  new        == NewTypes(info.argument_objects, types)
                  known      == KnownInterfaces(class_file, types \cup new)
              IN  /\ types' = types \cup new
                  /\ \E pushed \in IterationOrders(new) :
                        /\ search_object_types' = Below \o pushed \o known
                        /\ pushed_new' = pushed_new \o pushed
                  /\ objects' = Append(objects,
                                       [ObjectFrom(ObjectTypeFrom(Top)) EXCEPT
                                           !.methods = info.functions,
                                           !.interfaces = InterfaceNames(known)])
    /\ already_generated' = already_generated \cup {Top}
    /\ lookups' = Append(lookups, Top)
    /\ UNCHANGED <<pc, genConfig, output_file, gen_result, search_result, class_ffis, argument_types, abiVars, extVars, excVars, rtVars>>

\* generate_support_types returns the objects: the work stack is empty
ReturnObjects ==
    /\ pc = "gen_search"
    /\ search_object_types = <<>>
    /\ pc' = "gen_objects"
    /\ UNCHANGED <<genVars, abiVars, extVars, excVars, rtVars>>

NextGen == \/ NativeClassNotFound
           \/ GenerateNatives
           \/ StartSupportTypes
           \/ PopGenerated
           \/ PopUnwrapped
           \/ PopWrappedNotFound
           \/ PopWrapped
           \/ ReturnObjects

SpecGen == InitGen /\ [][NextGen]_vars

----------------------------------------------------------------------------
(* template.rs: the catch functions of the generated exception types *)

(* A JThrowable is [is_null, classes]: classes holds the descriptors of the
   exception classes that the object is an instance of.  The result of catch
   is [kind, variant, throwable]: kind is "Ok", "Err" or "Panic", variant
   names the variant of the sum type in Ok, throwable is the object in Err. *)

CatchOk(variant) == [kind |-> "Ok", variant |-> variant, throwable |-> NoThrowable]
CatchErr(throwable) == [kind |-> "Err", variant |-> <<>>, throwable |-> throwable]
CatchPanic == [kind |-> "Panic", variant |-> <<>>, throwable |-> NoThrowable]

\* the generated file compiles: no type is defined twice and no sum type
\* has two variants of one name
Compiles(markers, sums) ==
    /\ \A k, l \in 1..Len(markers) : markers[k].ident = markers[l].ident => k = l
    /\ \A k, l \in 1..Len(sums) : sums[k].name = sums[l].name => k = l
    /\ \A k \in 1..Len(sums), l \in 1..Len(markers) : sums[k].name # markers[l].ident
    /\ \A k \in 1..Len(sums) :
          \A i, j \in 1..Len(sums[k].variants) :
              sums[k].variants[i] = sums[k].variants[j] => i = j

\* the marker type that an identifier names
MarkerNamed(markers, ident) ==
    markers[CHOOSE k \in 1..Len(markers) : markers[k].ident = ident]

\* generate_exceptions, catch of a marker type: instance_of_ok tells whether
\* env.is_instance_of returns a value, its expect panics when it does not
MarkerCatch(marker, throwable, instance_of_ok) ==
    IF throwable.is_null THEN CatchErr(throwable)
    ELSE IF ~instance_of_ok THEN CatchPanic
    ELSE IF marker.ex_class_name \in throwable.classes THEN CatchOk(marker.ident)
    ELSE CatchErr(throwable)

\* generate_exceptions, catch of a sum type: the loop over ALL_EXCEPTIONS,
\* from the i-th variant on
RECURSIVE SumCatchFrom(_, _, _, _, _)
SumCatchFrom(markers, sum, throwable, instance_of_ok, i) ==
    IF i > Len(sum.variants) THEN CatchErr(throwable)
    ELSE LET e == MarkerCatch(MarkerNamed(markers, sum.variants[i]), throwable,
                              instance_of_ok)
         IN  IF e.kind = "Ok" THEN CatchOk(sum.variants[i])
             ELSE IF e.kind = "Panic" THEN CatchPanic
             ELSE SumCatchFrom(markers, sum, throwable, instance_of_ok, i + 1)

SumCatch(markers, sum, throwable, instance_of_ok) ==
    SumCatchFrom(markers, sum, throwable, instance_of_ok, 1)

----------------------------------------------------------------------------
(* The exception sets of a run, and the throwables caught at run time *)

CatchSets == {S \in SUBSET ExceptionPool : Cardinality(S) \in 1..MaxThrows}

CatchFamilies == {F \in SUBSET CatchSets : Cardinality(F) \in 1..MaxThrowing}

ThrownObjects ==
    {[is_null |-> TRUE, classes |-> {}]}
        \cup {[is_null |-> FALSE, classes |-> S] :
                 S \in {T \in SUBSET ExceptionPool : Cardinality(T) <= 1}
                          \cup {{<<"a","/","E">>, <<"a","/","E","F">>}}}

InitCatch ==
    /\ pc = "catch_start"
    /\ exception_sets \in CatchFamilies
    /\ exc_class_file = NoClassFile
    /\ exc_functions = <<>>
    /\ error_types = <<>>
    /\ marker_types = <<>>
    /\ sum_types = <<>>
    /\ AbiIdle /\ ExtIdle /\ GenIdle /\ RtIdle

\* generate_exceptions
GenerateExceptions ==
    /\ pc = "catch_start"
    /\ \E types_in_order \in IterationOrders(UNION exception_sets) :
          marker_types' = MarkerTypes(types_in_order)
    /\ \E sets_in_order \in IterationOrders(exception_sets) :
          sum_types' = SumTypes(sets_in_order)
    /\ pc' = "catch_generated"
    /\ UNCHANGED <<exc_class_file, exc_functions, exception_sets, error_types,
                   abiVars, extVars, genVars, rtVars>>

\* the generated code calls catch of a marker type
CatchByMarker ==
    /\ pc = "catch_generated"
    /\ Compiles(marker_types, sum_types)
    /\ \E k \in 1..Len(marker_types), t \in ThrownObjects, instance_of_ok \in BOOLEAN :
          /\ catch_of' = [kind |-> "Marker", index |-> k]
          /\ thrown' = t
          /\ caught' = MarkerCatch(marker_types[k], t, instance_of_ok)
    /\ pc' = "catch_done"
    /\ UNCHANGED <<excVars, env_thrown, ffiVars, hookVars, wrapVars, abiVars, extVars, genVars>>

\* the generated code calls catch of a sum type
CatchBySumType ==
    /\ pc = "catch_generated"
    /\ Compiles(marker_types, sum_types)
    /\ \E k \in 1..Len(sum_types), t \in ThrownObjects, instance_of_ok \in BOOLEAN :
          /\ catch_of' = [kind |-> "Sum", index |-> k]
          /\ thrown' = t
          /\ caught' = SumCatch(marker_types, sum_types[k], t, instance_of_ok)
    /\ pc' = "catch_done"
    /\ UNCHANGED <<excVars, env_thrown, ffiVars, hookVars, wrapVars, abiVars, extVars, genVars>>

NextCatch == GenerateExceptions \/ CatchByMarker \/ CatchBySumType

SpecCatch == InitCatch /\ [][NextCatch]_vars

----------------------------------------------------------------------------
(* A whole run of generate, up to the output file *)

\* class p/C extends p/A and implements p/B
Inheriting ==
    [c \in GenDescs |-> IF c = ClassC THEN Extends(<<ClassA>>, <<ClassB>>) ELSE Plain]

\* the directory of the class files, with those that cannot be read or parsed
DamagedDirectory(present, refs, unreadable, malformed) ==
    [Directory(present, refs, Inheriting) EXCEPT
        !.unreadable = {ClassToPath(c) : c \in unreadable},
        !.malformed = {ClassToPath(c) : c \in malformed}]

\* what is wrong with the class files: nothing, one is missing, one cannot be
\* read, one is not a class file
Damages ==
    { [absent |-> {}, unreadable |-> {}, malformed |-> {}],
      [absent |-> {ClassB}, unreadable |-> {}, malformed |-> {}],
      [absent |-> {}, unreadable |-> {ClassA}, malformed |-> {}],
      [absent |-> {}, unreadable |-> {}, malformed |-> {ClassC}] }

InitRun ==
    /\ pc = "gen_start"
    /\ \E to_wrap \in SUBSET GenDescs : classes_to_wrap = ConfiguredNames(to_wrap)
    /\ \E native \in {n \in SUBSET GenDescs : Cardinality(n) <= 1} :
          native_classes = ConfiguredNames(native)
    /\ \E refs \in RefSets, damage \in Damages :
          classpath = <<DamagedDirectory(GenDescs \ damage.absent, refs,
                                         damage.unreadable, damage.malformed)>>
    /\ cwd = DirRoot(<<>>)
    /\ search_result = NotSearched
    /\ class_ffis = <<>>
    /\ argument_types = {}
    /\ types = {}
    /\ search_object_types = <<>>
    /\ objects = <<>>
    /\ already_generated = {}
    /\ pushed_new = <<>>
    /\ lookups = <<>>
    /\ output_file \in {NoFile, OldFile}
    /\ file_before = output_file
    /\ gen_result = NotReturned
    /\ AbiIdle /\ ExtIdle /\ ExcIdle /\ RtIdle

\* generate: read_class fails for a native class
NativeClassUnreadable ==
    /\ pc = "gen_start"
    /\ LET classes == SearchClasspath(Roots(classpath, cwd), DescsOf(native_classes))
       IN  /\ classes.found
           /\ FirstReadError(Roots(classpath, cwd), classes.found_classes, 1) # <<>>
           /\ search_result' = SearchResult(classes)
           /\ gen_result' =
                 GenErr("read_class",
                        FirstReadError(Roots(classpath, cwd), classes.found_classes, 1))
    /\ pc' = "gen_failed"
    /\ UNCHANGED <<genConfig, output_file, class_ffis, argument_types, types,
                   search_object_types, objects, already_generated, pushed_new, lookups,
                   abiVars, extVars, excVars, rtVars>>

\* generate_support_types, one turn of the loop: the type popped is a class
\* to wrap and read_class fails for its class file
PopWrappedUnreadable ==
    /\ pc = "gen_search"
    /\ search_object_types # <<>>
    /\ Top \notin already_generated
    /\ WrapMethods(Top, ClassesToWrap(classes_to_wrap, native_classes))
    /\ LET class == SearchClasspath(Roots(classpath, cwd), <<Top>>)
       IN  /\ class.found
           /\ ReadError(Roots(classpath, cwd), class.found_classes[1]) # <<>>
           /\ gen_result' =
                 GenErr("read_class",
                        ReadError(Roots(classpath, cwd), class.found_classes[1]))
    /\ already_generated' = already_generated \cup {Top}
    /\ search_object_types' = Below
    /\ lookups' = Append(lookups, Top)
    /\ pc' = "gen_failed"
    /\ UNCHANGED <<genConfig, output_file, search_result, class_ffis, argument_types,
                   types, objects, pushed_new, abiVars, extVars, excVars, rtVars>>

\* File::create run while generate_support_types is still in its loop
CreateOutputBeforeClosure ==
    /\ pc = "gen_search"
    /\ output_file # EmptyFile
    /\ output_file' = EmptyFile
    /\ UNCHANGED <<pc, genConfig, gen_result, search_result, class_ffis, argument_types,
                   types, search_object_types, objects, already_generated, pushed_new, lookups,
                   abiVars, extVars, excVars, rtVars>>

\* generate: the text is rendered, then File::create(rust_file)? creates the
\* file or truncates it, or fails and leaves it as it is
CreateOutput ==
    /\ pc = "gen_objects"
    /\ \/ /\ output_file' = EmptyFile
          /\ pc' = "gen_created"
          /\ UNCHANGED gen_result
       \/ /\ gen_result' = GenErr("File::create", <<"i","o"," ","e","r","r","o","r">>)
          /\ pc' = "gen_failed"
          /\ UNCHANGED output_file
    /\ UNCHANGED <<genConfig, search_result, class_ffis, argument_types,
                   types, search_object_types, objects, already_generated, pushed_new, lookups,
                   abiVars, extVars, excVars, rtVars>>

\* generate: rust_file.write_all(rendered.as_bytes())? writes all the text,
\* or fails after it wrote none or some of it; then Ok(())
WriteOutput ==
    /\ pc = "gen_created"
    /\ \/ /\ output_file' = WholeFile
          /\ gen_result' = GenOk
          /\ pc' = "gen_done"
       \/ /\ output_file' \in {EmptyFile, PartialFile}
          /\ gen_result' = GenErr("write_all", <<"i","o"," ","e","r","r","o","r">>)
          /\ pc' = "gen_failed"
    /\ UNCHANGED <<genConfig, search_result, class_ffis, argument_types,
                   types, search_object_types, objects, already_generated, pushed_new, lookups,
                   abiVars, extVars, excVars, rtVars>>

NextRun == \/ NativeClassNotFound
           \/ GenerateNatives
           \/ StartSupportTypes
           \/ PopGenerated
           \/ PopUnwrapped
           \/ PopWrappedNotFound
           \/ PopWrapped
           \/ ReturnObjects
           \/ NativeClassUnreadable
           \/ PopWrappedUnreadable
           \/ CreateOutput
           \/ WriteOutput

SpecRun == InitRun /\ [][NextRun]_vars

----------------------------------------------------------------------------
(* The search roots that search_classpath is applied to *)

\* the directories, the files and the missing paths a root can be
RootPool ==
    { DirRoot([path \in {ClassToPath(c) : c \in present} |->
                  GenClassFile(CHOOSE c \in present : ClassToPath(c) = path,
                               {}, [d \in GenDescs |-> Plain])]) :
        present \in {{}, {ClassA}, {ClassB}, {ClassA, ClassB}} }
      \cup {FileRoot(<<"j","a","r">>), FileRoot(<<"c","l","a","s","s">>), NoRoot}

InitSearch ==
    /\ pc = "search_start"
    /\ classpath \in StringsUpTo(RootPool, MaxRoots)
    /\ cwd \in {root \in RootPool : root.is_dir}
    /\ \E requested \in SeqsWithoutRepetition({ClassA, ClassB}, 2) :
          native_classes = [i \in 1..Len(requested) |-> Replace(requested[i], "/", ".")]
    /\ classes_to_wrap = <<>>
    /\ search_result = NotSearched
    /\ class_ffis = <<>>
    /\ argument_types = {}
    /\ types = {}
    /\ search_object_types = <<>>
    /\ objects = <<>>
    /\ already_generated = {}
    /\ pushed_new = <<>>
    /\ lookups = <<>>
    /\ output_file = OldFile
    /\ file_before = OldFile
    /\ gen_result = NotReturned
    /\ AbiIdle /\ ExtIdle /\ ExcIdle /\ RtIdle

\* generate: let classes = self.search_classpath(&native_classes), with its
\* three ends
SearchReturn(kind) ==
    /\ pc = "search_start"
    /\ search_result' =
          SearchResult(SearchClasspath(Roots(classpath, cwd), DescsOf(native_classes)))
    /\ search_result'.kind = kind
    /\ pc' = "search_done"
    /\ UNCHANGED <<genConfig, class_ffis, argument_types, types, search_object_types,
                   objects, already_generated, pushed_new, lookups, output_file, gen_result,
                   abiVars, extVars, excVars, rtVars>>

SearchFinds == SearchReturn("Ok")
SearchFails == SearchReturn("Err")
SearchPanics == SearchReturn("Panic")

NextSearch == SearchFinds \/ SearchFails \/ SearchPanics

SpecSearch == InitSearch /\ [][NextSearch]_vars

----------------------------------------------------------------------------
(* The exported ABI function generated for a native method, at run time *)

RuntimeException == <<"j","a","v","a","/","l","a","n","g","/","R","u","n","t","i","m","e","E","x","c","e","p","t","i","o","n">>

\* the payload of a panic: a &'static str, a String or a value of another type
PanicPayload(type, msg) == [type |-> type, msg |-> msg]

\* Result::expect on an Err: the payload is a formatted String
ExpectPayload(msg) == PanicPayload("String", msg)

\* catch_panic_and_throw: the message taken from the payload of the panic
PanicMessage(payload) ==
    IF payload.type \in {"&str", "String"} THEN payload.msg
    ELSE <<"u","n","k","n","o","w","n"," ","p","a","n","i","c",":"," ","T","y","p","e","I","d">>

\* catch_panic_and_throw: the message of the RuntimeException
ThrownMessage(payload) == <<"p","a","n","i","c",":"," ">> \o PanicMessage(payload)

\* an exported function generated without handle_err
ExternFunctionWithoutHandleErr(func) ==
    [args_to_rust |-> [i \in 1..Len(func.arguments) |-> func.arguments[i].rs_ty],
     handle_err   |-> FALSE,
     result       |-> func.result]

\* the exported function generated for func: the conversions of its arguments,
\* whether handle_err is generated, and the type of its result
ExternFunction(func) ==
    [args_to_rust |-> [i \in 1..Len(func.arguments) |-> func.arguments[i].rs_ty],
     handle_err   |-> func.exceptions # {},
     result       |-> func.result]

\* FromJavaToRust for String: the conversion that holds expect
JavaToRustMayPanic(rs_ty) == rs_ty = TypeName("", <<"S","t","r","i","n","g">>, FALSE)

\* FromRustToJava for JString: the conversion that holds expect
RustToJavaMayPanic(ty) == ty = TypeName("jni::objects", <<"J","S","t","r","i","n","g">>, TRUE)

\* what the developer's method can do: return a value, return an error of one
\* of the declared exceptions (only a method that declares exceptions returns
\* a Result), or panic
ImplOk == [kind |-> "Ok"]
ImplErr(class, msg) == [kind |-> "Err", class |-> class, msg |-> msg]
ImplPanic(payload) == [kind |-> "Panic", payload |-> payload]

(* The native methods called, and what the developer's code does *)

FfiClass ==
    ClassFile(<<"p","/","T">>, <<>>, <<>>,
        << ThrowingMethod(1, <<>>),
           ThrowingMethod(2, <<<<"a","/","E">>>>),
           [name |-> <<"f">>, access_flags |-> {"NATIVE"},
            descriptor |-> [parameters |-> <<Ty("I"), ObjectTy(JavaLangString)>>,
                            result |-> <<ObjectTy(JavaLangString)>>],
            attributes |-> ThrowingAttributes(<<<<"a","/","E">>, <<"a","/","F">>>>)],
           Method(<<"g">>, {"NATIVE"}, <<ObjectTy(JavaLangString)>>, <<Ty("I")>>),
           Method(<<"h">>, {"NATIVE"}, <<Ty("J")>>, <<ObjectTy(JavaLangString)>>) >>)

FfiFunctions == ExtractFunctionInfo(FfiClass, NativeMethods(FfiClass)).functions

PanicPayloads ==
    { PanicPayload("&str", <<"b","o","o","m">>),
      PanicPayload("String", <<"P","a","n","i","c","s"," ","a","r","e"," ","s","a","f","e">>),
      PanicPayload("other", <<>>) }

ImplOutcomes(func) ==
    {ImplOk} \cup {ImplPanic(p) : p \in PanicPayloads}
             \cup {ImplErr(class, msg) : class \in func.exceptions,
                                         msg \in {<<"b","a","d">>, <<>>}}

InitFfi ==
    /\ pc = "ffi_start"
    /\ \E i \in 1..Len(FfiFunctions) : ffi_func = FfiFunctions[i]
    /\ impl_result = NoOutcome
    /\ closure_result = "None"
    /\ throw_calls = 0
    /\ panics = <<>>
    /\ ffi_return = "None"
    /\ escaped = FALSE
    /\ thrown = NoThrowable /\ catch_of = NoCatch /\ caught = NoResult
    /\ env_thrown = <<>>
    /\ HookIdle /\ WrapIdle
    /\ AbiIdle /\ ExtIdle /\ ExcIdle /\ GenIdle

\* a panic outside catch_panic_and_throw leaves the exported function
Escape(payload) ==
    /\ panics' = Append(panics, payload)
    /\ escaped' = TRUE
    /\ pc' = "ffi_escaped"

\* let myself = <trait_impl>::from_env(env), the developer's constructor
FromEnv ==
    /\ pc = "ffi_start"
    /\ \/ pc' = "ffi_args" /\ UNCHANGED <<panics, escaped>>
       \/ \E payload \in PanicPayloads : Escape(payload)
    /\ UNCHANGED <<ffi_func, impl_result, closure_result, throw_calls, ffi_return,
                   thrown, catch_of, caught, env_thrown,
                   abiVars, extVars, excVars, genVars,
                   hookVars, wrapVars>>

\* the args_to_rust statements, one java_to_rust for each argument
ArgsToRust ==
    /\ pc = "ffi_args"
    /\ \/ pc' = "ffi_call" /\ UNCHANGED <<panics, escaped>>
       \/ /\ \E i \in 1..Len(ExternFunction(ffi_func).args_to_rust) :
                JavaToRustMayPanic(ExternFunction(ffi_func).args_to_rust[i])
          /\ Escape(ExpectPayload(<<"J","a","v","a"," ","c","o","u","l","d","n","'","t"," ","a","l","l","o","c","a","t","e"," ","a"," ","s","i","m","p","l","e"," ","s","t","r","i","n","g">>))
    /\ UNCHANGED <<ffi_func, impl_result, closure_result, throw_calls, ffi_return,
                   thrown, catch_of, caught, env_thrown,
                   abiVars, extVars, excVars, genVars,
                   hookVars, wrapVars>>

\* inside the closure: the call of the developer's method
CallImpl ==
    /\ pc = "ffi_call"
    /\ \E outcome \in ImplOutcomes(ffi_func) :
          /\ impl_result' = outcome
          /\ IF outcome.kind = "Panic"
             THEN /\ panics' = Append(panics, outcome.payload)
                  /\ pc' = "ffi_boundary"
             ELSE /\ panics' = panics
                  /\ pc' = IF ExternFunction(ffi_func).handle_err
                           THEN "ffi_handle" ELSE "ffi_convert"
    /\ UNCHANGED <<ffi_func, closure_result, throw_calls, ffi_return, escaped,
                   thrown, catch_of, caught, env_thrown,
                   abiVars, extVars, excVars, genVars,
                   hookVars, wrapVars>>

\* inside the closure: handle_err, generated when the method declares exceptions
HandleErr ==
    /\ pc = "ffi_handle"
    /\ IF impl_result.kind = "Err"
       THEN /\ throw_calls' = throw_calls + 1
            /\ \/ /\ env_thrown' = Append(env_thrown, [class |-> impl_result.class,
                                                       msg |-> impl_result.msg])
                  /\ closure_result' = "Null"
                  /\ panics' = panics
               \/ /\ panics' = Append(panics, ExpectPayload(<<"f","a","i","l","e","d"," ","t","o"," ","t","h","r","o","w"," ","e","x","c","e","p","t","i","o","n">>))
                  /\ UNCHANGED <<env_thrown, closure_result>>
            /\ pc' = "ffi_boundary"
       ELSE /\ pc' = "ffi_convert"
            /\ UNCHANGED <<throw_calls, env_thrown, closure_result, panics>>
    /\ UNCHANGED <<ffi_func, impl_result, ffi_return, escaped,
                   thrown, catch_of, caught, abiVars, extVars, excVars, genVars,
                   hookVars, wrapVars>>

\* inside the closure: <result>::rust_to_java(result, env)
RustToJava ==
    /\ pc = "ffi_convert"
    /\ \/ closure_result' = "Converted" /\ panics' = panics
       \/ /\ RustToJavaMayPanic(ExternFunction(ffi_func).result)
          /\ panics' = Append(panics, ExpectPayload(<<"b","a","d"," ","s","t","r","i","n","g"," ","s","e","n","t"," ","t","o"," ","J","a","v","a">>))
          /\ closure_result' = closure_result
    /\ pc' = "ffi_boundary"
    /\ UNCHANGED <<ffi_func, impl_result, throw_calls, ffi_return, escaped,
                   thrown, catch_of, caught, env_thrown,
                   abiVars, extVars, excVars, genVars,
                   hookVars, wrapVars>>

\* catch_panic_and_throw, once the closure has returned or panicked
CatchPanicAndThrow ==
    /\ pc = "ffi_boundary"
    /\ IF panics = <<>>
       THEN /\ ffi_return' = closure_result
            /\ pc' = "ffi_returned"
            /\ UNCHANGED <<env_thrown, panics, escaped>>
       ELSE \/ /\ env_thrown' =
                     Append(env_thrown, [class |-> RuntimeException,
                                         msg |-> ThrownMessage(panics[Len(panics)])])
               /\ ffi_return' = "Null"
               /\ pc' = "ffi_returned"
               /\ UNCHANGED <<panics, escaped>>
            \/ /\ Escape(ExpectPayload(<<"f","a","i","l","e","d"," ","t","o"," ","t","h","r","o","w"," ","e","x","c","e","p","t","i","o","n">>))
               /\ UNCHANGED <<env_thrown, ffi_return>>
    /\ UNCHANGED <<ffi_func, impl_result, closure_result, throw_calls,
                   thrown, catch_of, caught, abiVars, extVars, excVars, genVars,
                   hookVars, wrapVars>>

NextFfi == FromEnv \/ ArgsToRust \/ CallImpl \/ HandleErr \/ RustToJava
              \/ CatchPanicAndThrow

SpecFfi == InitFfi /\ [][NextFfi]_vars

----------------------------------------------------------------------------
(* template.rs: the JNI_OnLoad of the generated library *)

\* generate_java_ffi, the quote of onload: the statements of JNI_OnLoad and
\* its tail expression, a statement being the path of the function called;
\* the function is called with the objects, the ClassFfi and the exception
\* sets, and its body names no load-hook function
GenerateJavaFfiOnLoad(load_fn) ==
    [statements |-> <<[call |-> <<"exceptions", "register_panic_hook">>, arg |-> "vm"]>>,
     result |-> "jni::sys::JNI_VERSION_1_8"]

\* the names a load-hook function can be configured with
LoadFnAlphabet == {"a", "b", "c", "_", "0", "1"}

LoadFnNames ==
    {s \in StringsUpTo(LoadFnAlphabet, MaxLen) : s # <<>> /\ s[1] \notin {"0", "1"}}

\* Jaffi: user_on_load_fn is None, or Some(name)
InitLoad ==
    /\ pc = "load_start"
    /\ user_on_load_fn \in {<<>>} \cup {<<s>> : s \in LoadFnNames}
    /\ onload = NoHook
    /\ load_calls = <<>>
    /\ load_return = "None"
    /\ WrapIdle
    /\ thrown = NoThrowable /\ catch_of = NoCatch /\ caught = NoResult
    /\ env_thrown = <<>>
    /\ FfiIdle
    /\ AbiIdle /\ ExtIdle /\ ExcIdle /\ GenIdle

\* generate: generate_java_ffi(objects, class_ffis, exceptions,
\* self.user_on_load_fn.clone()) renders JNI_OnLoad
RenderOnLoad ==
    /\ pc = "load_start"
    /\ onload' = GenerateJavaFfiOnLoad(user_on_load_fn)
    /\ pc' = "load_rendered"
    /\ UNCHANGED <<user_on_load_fn, load_calls, load_return, wrapVars,
                   thrown, catch_of, caught, env_thrown, ffiVars,
                   abiVars, extVars, excVars, genVars>>

\* the JVM loads the library and calls JNI_OnLoad: its next statement
RunOnLoadStatement ==
    /\ pc = "load_rendered"
    /\ Len(load_calls) < Len(onload.statements)
    /\ load_calls' = Append(load_calls, onload.statements[Len(load_calls) + 1])
    /\ UNCHANGED <<pc, user_on_load_fn, onload, load_return, wrapVars,
                   thrown, catch_of, caught, env_thrown, ffiVars,
                   abiVars, extVars, excVars, genVars>>

\* JNI_OnLoad returns its tail expression
ReturnFromOnLoad ==
    /\ pc = "load_rendered"
    /\ Len(load_calls) = Len(onload.statements)
    /\ load_return' = onload.result
    /\ pc' = "load_done"
    /\ UNCHANGED <<user_on_load_fn, onload, load_calls, wrapVars,
                   thrown, catch_of, caught, env_thrown, ffiVars,
                   abiVars, extVars, excVars, genVars>>

NextLoad == RenderOnLoad \/ RunOnLoadStatement \/ ReturnFromOnLoad

SpecLoad == InitLoad /\ [][NextLoad]_vars

----------------------------------------------------------------------------
(* template.rs: the wrapper method generated for a method of a wrapped class *)

(* The call into Java returns [kind, thrown]: kind is "Ok", "JavaException"
   (thrown is then the exception pending in the environment) or "Error" for
   every other jni::errors::Error.  The wrapper method returns, or panics
   with, [kind, exception, variant, msg]: kind is "Value" (the plain result of
   a method without exceptions), "Ok", "Err" or "Panic"; exception and variant
   are the fields of the Exception in Err, msg is the message of the panic. *)

CallOk == [kind |-> "Ok", thrown |-> NoThrowable]
CallJavaException(t) == [kind |-> "JavaException", thrown |-> t]
CallError == [kind |-> "Error", thrown |-> NoThrowable]

WrapperValue(kind) ==
    [kind |-> kind, exception |-> NoThrowable, variant |-> <<>>, msg |-> <<>>]
WrapperErr(exception, variant) ==
    [kind |-> "Err", exception |-> exception, variant |-> variant, msg |-> <<>>]
WrapperPanic(msg) ==
    [kind |-> "Panic", exception |-> NoThrowable, variant |-> <<>>, msg |-> msg]

\* a wrapper method generated without the arm for JavaException
GenerateFunctionWithoutHandler(func) ==
    [method_call       |-> IF func.is_constructor THEN "new_object"
                           ELSE IF func.is_static THEN "call_static_method"
                           ELSE "call_method",
     exception_handler |-> FALSE,
     return_err        |-> ExceptionNameFromSet(func.exceptions),
     ok_return         |-> func.exceptions # {}]

\* generate_function: the call into Java, whether the arm for JavaException
\* is generated, the sum type of return_err, and whether the value is
\* wrapped in Ok
GenerateFunction(func) ==
    [method_call       |-> IF func.is_constructor THEN "new_object"
                           ELSE IF func.is_static THEN "call_static_method"
                           ELSE "call_method",
     exception_handler |-> func.exceptions # {},
     return_err        |-> ExceptionNameFromSet(func.exceptions),
     ok_return         |-> func.exceptions # {}]

\* the sum type that a name of the generated file stands for
SumNamed(sums, ident) ==
    sums[CHOOSE k \in 1..Len(sums) : sums[k].name = ident]

(* The methods wrapped, and what the call into Java does *)

PublicThrowing(method_name, access_flags, throws) ==
    [name |-> method_name, access_flags |-> access_flags,
     descriptor |-> [parameters |-> <<>>, result |-> <<>>],
     attributes |-> ThrowingAttributes(throws)]

WrapClass ==
    ClassFile(<<"p","/","W">>, <<>>, <<>>,
        << PublicThrowing(<<"q","u","i","e","t">>, {"PUBLIC"}, <<>>),
           PublicThrowing(<<"i","_","a","l","w","a","y","s","_","t","h","r","o","w">>, {"PUBLIC"}, <<<<"a","/","E">>>>),
           PublicThrowing(<<"e","i","t","h","e","r">>, {"PUBLIC", "STATIC"}, <<<<"a","/","E">>, <<"a","/","F">>>>),
           PublicThrowing(InitName, {"PUBLIC"}, <<<<"a","/","F">>>>) >>)

WrapFunctions == ExtractFunctionInfo(WrapClass, PublicMethods(WrapClass)).functions

WrapExceptionSets ==
    {WrapFunctions[i].exceptions : i \in 1..Len(WrapFunctions)} \ {{}}

\* a pending exception is an object
PendingObjects == {t \in ThrownObjects : ~t.is_null}

CallOutcomes == {CallOk, CallError} \cup {CallJavaException(t) : t \in PendingObjects}

InitWrap ==
    /\ pc = "wrap_start"
    /\ \E i \in 1..Len(WrapFunctions) : wrapper = WrapFunctions[i]
    /\ exception_sets = WrapExceptionSets
    /\ \E types_in_order \in IterationOrders(UNION WrapExceptionSets) :
          marker_types = MarkerTypes(types_in_order)
    /\ \E sets_in_order \in IterationOrders(WrapExceptionSets) :
          sum_types = SumTypes(sets_in_order)
    /\ exc_class_file = WrapClass
    /\ exc_functions = WrapFunctions
    /\ error_types = <<>>
    /\ call_result = NoOutcome
    /\ pending = <<>>
    /\ jni_steps = <<>>
    /\ wrapper_return = NoOutcome
    /\ thrown = NoThrowable /\ catch_of = NoCatch /\ caught = NoResult
    /\ env_thrown = <<>>
    /\ FfiIdle /\ HookIdle
    /\ AbiIdle /\ ExtIdle /\ GenIdle

\* the wrapper method ends, with a value or with a panic
WrapperEnds(outcome) ==
    /\ wrapper_return' = outcome
    /\ pc' = "wrap_done"

\* let rust_value = { method_call }: new_object, call_static_method or
\* call_method
MethodCall ==
    /\ pc = "wrap_start"
    /\ \E outcome \in CallOutcomes :
          /\ call_result' = outcome
          /\ pending' = IF outcome.kind = "JavaException" THEN <<outcome.thrown>>
                        ELSE <<>>
    /\ pc' = "wrap_called"
    /\ UNCHANGED <<wrapper, jni_steps, wrapper_return, thrown, catch_of, caught,
                   env_thrown, ffiVars, hookVars, abiVars, extVars, excVars, genVars>>

\* the arm Ok(jvalue): from_jvalue, which holds expect, and ok_return
FromJvalue ==
    /\ pc = "wrap_called"
    /\ call_result.kind = "Ok"
    /\ \/ WrapperEnds(WrapperValue(IF GenerateFunction(wrapper).ok_return
                                   THEN "Ok" ELSE "Value"))
       \/ WrapperEnds(WrapperPanic(<<"w","r","o","n","g"," ","t","y","p","e"," ","c","o","n","v","e","r","s","i","o","n">>))
    /\ UNCHANGED <<wrapper, call_result, pending, jni_steps, thrown, catch_of, caught,
                   env_thrown, ffiVars, hookVars, abiVars, extVars, excVars, genVars>>

\* the arm Err(JavaException), generated when the method declares exceptions:
\* env.exception_occurred()
ExceptionOccurred ==
    /\ pc = "wrap_called"
    /\ call_result.kind = "JavaException"
    /\ GenerateFunction(wrapper).exception_handler
    /\ jni_steps' = Append(jni_steps, "exception_occurred")
    /\ \/ /\ thrown' = pending[1]
          /\ pc' = "wrap_clear"
          /\ UNCHANGED wrapper_return
       \/ /\ WrapperEnds(WrapperPanic(<<"e","r","r","o","r"," ","e","x","c","e","p","t","i","o","n","_","o","c","c","u","r","r","e","d">>))
          /\ UNCHANGED thrown
    /\ UNCHANGED <<wrapper, call_result, pending, catch_of, caught,
                   env_thrown, ffiVars, hookVars, abiVars, extVars, excVars, genVars>>

\* env.exception_clear().expect("error exception_clear")
ExceptionClear ==
    /\ pc = "wrap_clear"
    /\ jni_steps' = Append(jni_steps, "exception_clear")
    /\ \/ /\ pending' = <<>>
          /\ pc' = "wrap_catch"
          /\ UNCHANGED wrapper_return
       \/ /\ WrapperEnds(WrapperPanic(<<"e","r","r","o","r"," ","e","x","c","e","p","t","i","o","n","_","c","l","e","a","r">>))
          /\ UNCHANGED pending
    /\ UNCHANGED <<wrapper, call_result, thrown, catch_of, caught,
                   env_thrown, ffiVars, hookVars, abiVars, extVars, excVars, genVars>>

\* match return_err::catch(env, throwable): Exception::catch calls the catch
\* of the sum type and keeps the object
CatchThrown ==
    /\ pc = "wrap_catch"
    /\ jni_steps' = Append(jni_steps, "catch")
    /\ \E instance_of_ok \in BOOLEAN :
          LET sum == SumNamed(sum_types, GenerateFunction(wrapper).return_err)
              got == SumCatch(marker_types, sum, thrown, instance_of_ok)
          IN  /\ catch_of' = [kind |-> "Sum",
                              index |-> CHOOSE k \in 1..Len(sum_types) : sum_types[k] = sum]
              /\ caught' = got
              /\ IF got.kind = "Ok"
                 THEN WrapperEnds(WrapperErr(thrown, got.variant))
                 ELSE IF got.kind = "Err"
                 THEN WrapperEnds(WrapperPanic(<<"u","n","c","a","u","g","h","t"," ","e","x","c","e","p","t","i","o","n">>))
                 ELSE WrapperEnds(WrapperPanic(<<"c","o","u","l","d"," ","n","o","t"," ","c","h","e","c","k"," ","i","n","s","t","a","n","c","e","_","o","f">>))
    /\ UNCHANGED <<wrapper, call_result, pending, thrown,
                   env_thrown, ffiVars, hookVars, abiVars, extVars, excVars, genVars>>

\* the arm Err(e): every error that no arm before it takes
PanicCallMethod ==
    /\ pc = "wrap_called"
    /\ \/ call_result.kind = "Error"
       \/ /\ call_result.kind = "JavaException"
          /\ ~GenerateFunction(wrapper).exception_handler
    /\ WrapperEnds(WrapperPanic(<<"e","r","r","o","r"," ","c","a","l","l","_","m","e","t","h","o","d">>))
    /\ UNCHANGED <<wrapper, call_result, pending, jni_steps, thrown, catch_of, caught,
                   env_thrown, ffiVars, hookVars, abiVars, extVars, excVars, genVars>>

NextWrap == MethodCall \/ FromJvalue \/ ExceptionOccurred \/ ExceptionClear
               \/ CatchThrown \/ PanicCallMethod

SpecWrap == InitWrap /\ [][NextWrap]_vars

----------------------------------------------------------------------------
(* C2 *)

\* The characters the escape table of the claim names.
NamedChars == AsciiLower \cup AsciiUpper \cup AsciiDigit \cup {"/", ".", "_", ";", "["}

\* The image the claim gives to a named character.
NamedImage(ch) ==
    CASE ch \in {"/", "."} -> <<"_">>
      [] ch = "_"          -> <<"_", "1">>
      [] ch = ";"          -> <<"_", "2">>
      [] ch = "["          -> <<"_", "3">>
      [] OTHER             -> <<ch>>

\* The image of one character: the one the table gives to a character it
\* names, and for any other character the escape of that character alone.
ImageOf(ch) == IF ch \in NamedChars THEN NamedImage(ch) ELSE JniAbiFrom(<<ch>>)

\* The images of the characters of s, concatenated in the order of s.
RECURSIVE ImagesInOrder(_, _)
ImagesInOrder(s, i) ==
    IF i > Len(s) THEN <<>> ELSE ImageOf(s[i]) \o ImagesInOrder(s, i + 1)

\* C2: escaping maps each character independently and concatenates the images
\* in input order; letters and digits are kept, '/' and '.' become "_", '_'
\* becomes "_1", ';' becomes "_2", '[' becomes "_3"; "p.q.r.A" yields
\* "p_q_r_A".
C2_EscapeTable ==
    pc = "abi_done" =>
        /\ abi_name = ImagesInOrder(name, 1)
        /\ name = <<"p",".","q",".","r",".","A">>
              => abi_name = <<"p","_","q","_","r","_","A">>

C2_Witness ==
    /\ pc = "abi_done"
    /\ name = <<"_", "[">>
    /\ abi_name = <<"_", "1", "_", "3">>

----------------------------------------------------------------------------
(* Export names, as the claims state them *)

\* the key a selected method is counted under
KeyOfSelected(i) ==
    IF ext_methods[i].name = InitName THEN <<"n","e","w","_">> \o ext_class_file.this_class
    ELSE ext_methods[i].name

\* the selected methods counted under the same key as the i-th
GroupOf(i) == {j \in 1..Len(ext_methods) : KeyOfSelected(j) = KeyOfSelected(i)}

\* the text strictly between the opening and the first closing parenthesis
ParameterText(signature) ==
    LET close == CHOOSE i \in 1..Len(signature) :
                    /\ signature[i] = ")"
                    /\ \A j \in 1..(i - 1) : signature[j] # ")"
    IN  SubSeq(signature, 2, close - 1)

\* the short and the long form of the name of the i-th selected method, after
\* the class component
ShortFfiName(i) == JniAbiFrom(KeyOfSelected(i))
LongFfiName(i) ==
    ShortFfiName(i) \o <<"_", "_">> \o JniAbiFrom(ParameterText(functions[i].signature))

\* the class component of the export names, as with_class builds it
ClassPrefix == <<"J","a","v","a","_">> \o EscapeForExternFn(ext_class_file.this_class) \o <<"_">>

IsPrefix(p, q) == Len(p) <= Len(q) /\ SubSeq(q, 1, Len(p)) = p

\* C1: when several selected methods of the class share one name key, every
\* one of them gets the long export name (short name, "__", escaped parameter
\* descriptor); a method alone under its key gets the short name.  Only the
\* selected methods count.
C1_LongNameForWholeGroup ==
    pc = "ext_done" =>
        /\ Len(functions) = Len(ext_methods)
        /\ \A i \in 1..Len(ext_methods) :
              functions[i].fn_export_ffi_name =
                  IF Cardinality(GroupOf(i)) > 1
                  THEN ClassPrefix \o LongFfiName(i)
                  ELSE ClassPrefix \o ShortFfiName(i)

\* two native overloads of f both got the long name; the third method of the
\* class, a non-native f that was not selected, is not counted with them
C1_Witness ==
    /\ pc = "ext_done"
    /\ Len(ext_class_file.methods) = 3
    /\ \A m \in 1..3 : ext_class_file.methods[m].name = <<"f">>
    /\ Len(ext_methods) = 2
    /\ KeyOfSelected(1) = KeyOfSelected(2)
    /\ functions[1].fn_export_ffi_name = ClassPrefix \o LongFfiName(1)
    /\ functions[2].fn_export_ffi_name = ClassPrefix \o LongFfiName(2)
    /\ functions[1].fn_export_ffi_name # functions[2].fn_export_ffi_name

\* C3 as stated: the class component of every export name is the ABI escape
\* of the class name ('/' to "_", '_' to "_1").
C3_ClassNameEscaped ==
    pc = "ext_done" =>
        \A i \in 1..Len(functions) :
            IsPrefix(<<"J","a","v","a","_">> \o JniAbiFrom(ext_class_file.this_class) \o <<"_">>
                         \o ShortFfiName(i),
                     functions[i].fn_export_ffi_name)

\* C4: the long form ends with "__" and the escape of the text strictly
\* between the opening and the first closing parenthesis of the descriptor;
\* f(ILjava.lang.String;)D and f(ILjava.lang.Object;)D of p.q.r.A give
\* Java_p_q_r_A_f__ILjava_lang_String_2 and Java_p_q_r_A_f__ILjava_lang_Object_2.
C4_DescriptorSuffix ==
    pc = "ext_done" =>
        /\ \A i \in 1..Len(functions) :
              functions[i].fn_export_ffi_name # ClassPrefix \o ShortFfiName(i)
                  => functions[i].fn_export_ffi_name = ClassPrefix \o LongFfiName(i)
        /\ \A i \in 1..Len(functions) :
              ( /\ ext_class_file.this_class = <<"p","/","q","/","r","/","A">>
                /\ Cardinality(GroupOf(i)) > 1
                /\ ext_methods[i].name = <<"f">>
                /\ functions[i].is_native )
              => functions[i].fn_export_ffi_name \in
                    { <<"J","a","v","a","_","p","_","q","_","r","_","A","_","f","_","_","I","L","j","a","v","a","_","l","a","n","g","_","S","t","r","i","n","g","_","2">>,
                      <<"J","a","v","a","_","p","_","q","_","r","_","A","_","f","_","_","I","L","j","a","v","a","_","l","a","n","g","_","O","b","j","e","c","t","_","2">> }
        /\ \A i, j \in 1..Len(functions) :
              ( /\ Cardinality(GroupOf(i)) > 1
                /\ KeyOfSelected(i) = KeyOfSelected(j)
                /\ ext_methods[i].descriptor.parameters = ext_methods[j].descriptor.parameters )
              => functions[i].fn_export_ffi_name = functions[j].fn_export_ffi_name

C4_Witness ==
    /\ pc = "ext_done"
    /\ Len(functions) = 2
    /\ functions[1].fn_export_ffi_name = <<"J","a","v","a","_","p","_","q","_","r","_","A","_","f","_","_","I","L","j","a","v","a","_","l","a","n","g","_","S","t","r","i","n","g","_","2">>
    /\ functions[2].fn_export_ffi_name = <<"J","a","v","a","_","p","_","q","_","r","_","A","_","f","_","_","I","L","j","a","v","a","_","l","a","n","g","_","O","b","j","e","c","t","_","2">>

----------------------------------------------------------------------------
(* C5 *)

ConstructorsSelected == {i \in 1..Len(ext_methods) : ext_methods[i].name = InitName}

\* the type of an instance of the owning class
InstanceTypeName ==
    TypeName("", ToUpperCamelCase(Replace(ext_class_file.this_class, "/", "_")), TRUE)

\* the names and the return type of the constructor at position i, when its
\* name has the long form exactly if long holds
ConstructorNamedAndTyped(i, long) ==
    LET ffi == IF long THEN LongFfiName(i) ELSE ShortFfiName(i)
    IN  /\ KeyOfSelected(i) = <<"n","e","w","_">> \o ext_class_file.this_class
        /\ functions[i].fn_export_ffi_name = ClassPrefix \o ffi
        /\ functions[i].rust_method_name \in
              {ToSnakeCase(ffi), ToSnakeCase(ffi) \o <<"_">> \o Decimal(i - 1)}
        /\ functions[i].result = InstanceTypeName
        /\ functions[i].rs_result = InstanceTypeName
        /\ functions[i].result # TypeName("jaffi_support", <<"J","a","v","a","V","o","i","d">>, FALSE)
        /\ functions[i].rs_result # UnitTypeName

\* C5 as stated: a constructor is counted under new_<owning class>, with the
\* other constructors and with no ordinary method; its names derive from that
\* key and it returns the instance type of its class.
C5_ConstructorNeverCollides ==
    pc = "ext_done" =>
        \A i \in ConstructorsSelected :
            ConstructorNamedAndTyped(i, Cardinality(ConstructorsSelected) > 1)

\* C5, amended: a constructor is counted under new_<owning class>, with the
\* other constructors and with an ordinary method only if that method is
\* itself named new_<owning class>; its names derive from that key and it
\* returns the instance type of its class, never void.
C5_ConstructorKey ==
    pc = "ext_done" =>
        \A i \in ConstructorsSelected :
            /\ \A j \in GroupOf(i) :
                  \/ j \in ConstructorsSelected
                  \/ ext_methods[j].name = <<"n","e","w","_">> \o ext_class_file.this_class
            /\ ConstructorsSelected \subseteq GroupOf(i)
            /\ ConstructorNamedAndTyped(i, Cardinality(GroupOf(i)) > 1)

\* two constructors were extracted together: both have the long name and
\* return the instance type, though their descriptors return void
C5_Witness ==
    /\ pc = "ext_done"
    /\ Cardinality(ConstructorsSelected) = 2
    /\ \A i \in ConstructorsSelected :
          /\ ext_methods[i].descriptor.result = <<>>
          /\ functions[i].fn_export_ffi_name = ClassPrefix \o LongFfiName(i)
          /\ functions[i].result = InstanceTypeName

----------------------------------------------------------------------------
(* C9, C10 *)

\* the exceptions the k-th method of the class file declares, as a set
DeclaredBy(k) ==
    LET attributes == exc_class_file.methods[k].attributes
    IN  UNION {{attributes[a].exceptions[e] : e \in 1..Len(attributes[a].exceptions)} :
               a \in 1..Len(attributes)}

\* the sum types emitted for the exception set S
SumTypesFor(S) == {k \in 1..Len(sum_types) : sum_types[k].exception_set = S}

\* C9: two methods that declare the same exceptions as sets, in whatever order
\* and with whatever repetitions, have the same sum type as error type, and
\* one sum type is emitted for that set however many methods declare it.
C9_OneSumTypePerSet ==
    pc = "exc_done" =>
        \A i, j \in 1..Len(exc_class_file.methods) :
            (DeclaredBy(i) = DeclaredBy(j) /\ DeclaredBy(i) # {}) =>
                /\ error_types[i] # <<>>
                /\ error_types[i] = error_types[j]
                /\ Cardinality(SumTypesFor(DeclaredBy(i))) = 1
                /\ \A k \in SumTypesFor(DeclaredBy(i)) :
                      sum_types[k].name = error_types[i][1]

\* two methods declare a/E and a/F in opposite orders: one sum type, EFErr
C9_Witness ==
    /\ pc = "exc_done"
    /\ Len(exc_class_file.methods) = 2
    /\ exc_class_file.methods[1].attributes
          = ThrowingAttributes(<<<<"a","/","E">>, <<"a","/","F">>>>)
    /\ exc_class_file.methods[2].attributes
          = ThrowingAttributes(<<<<"a","/","F">>, <<"a","/","E">>>>)
    /\ Len(sum_types) = 1
    /\ error_types = <<<<<<"E","F","E","r","r">>>>, <<<<"E","F","E","r","r">>>>>>

\* C10 as stated: the sum type generated for an exception set has one variant
\* for each member of the set and no other variant.
C10_VariantsAreTheMembers ==
    pc = "exc_done" =>
        \A k \in 1..Len(sum_types) :
            LET S == sum_types[k].exception_set
                v == sum_types[k].variants
            IN  /\ Len(v) = Cardinality(S)
                /\ \A d \in S :
                      Cardinality({n \in 1..Len(v) : v[n] = MakeIdent(ClassName(d))})
                          = Cardinality({e \in S : ClassName(e) = ClassName(d)})

----------------------------------------------------------------------------
(* C6, C7, C8 *)

\* the descriptors of the classes to wrap and of the native classes
Wrapped ==
    {Replace(classes_to_wrap[i], ".", "/") : i \in 1..Len(classes_to_wrap)}
        \cup {Replace(native_classes[i], ".", "/") : i \in 1..Len(native_classes)}

\* whether some root holds the class file of d, and that class file
HasClassFile(d) == SearchClasspath(classpath, <<d>>).found
ClassFileOf(d) == ReadClass(classpath, SearchClasspath(classpath, <<d>>).found_classes[1])

WellKnown == {JavaLangClass, JavaNioByteBuffer, JavaLangObject, JavaLangString,
              JavaLangThrowable}

\* the user-defined object types in an argument or return position of a method
UserObjectsOf(method) ==
    LET positions == method.descriptor.parameters \o method.descriptor.result
    IN  {Replace(positions[i].object, ".", "/") :
            i \in {j \in 1..Len(positions) :
                      /\ positions[j].dimensions = 0
                      /\ positions[j].base = "L"
                      /\ Replace(positions[j].object, ".", "/") \notin WellKnown}}

\* the methods of the class file of d that have all the flags in with and
\* none of the flags in without
MethodsOf(d, with, without) ==
    IF ~HasClassFile(d) THEN {}
    ELSE LET ms == ClassFileOf(d).methods
         IN  {ms[i] : i \in {j \in 1..Len(ms) : /\ with \subseteq ms[j].access_flags
                                                 /\ without \cap ms[j].access_flags = {}}}

\* what the public non-native methods of d refer to, and the types collected
\* from the functions of the native class d
PublicRefs(d) == UNION {UserObjectsOf(m) : m \in MethodsOf(d, {"PUBLIC"}, {"NATIVE"})}
NativeRefs(d) ==
    IF MethodsOf(d, {"NATIVE"}, {}) = {} THEN {}
    ELSE {d} \cup UNION {UserObjectsOf(m) : m \in MethodsOf(d, {"NATIVE"}, {})}

SeedSet ==
    {Replace(classes_to_wrap[i], ".", "/") : i \in 1..Len(classes_to_wrap)}
        \cup UNION {NativeRefs(Replace(native_classes[i], ".", "/")) :
                        i \in 1..Len(native_classes)}

\* the least set that contains S and, for each of its members that is
\* wrapped, the class itself and what its public methods refer to
RECURSIVE Closure(_)
Closure(S) ==
    LET next == S \cup UNION {{d} \cup PublicRefs(d) : d \in S \cap Wrapped}
    IN  IF next = S THEN S ELSE Closure(next)

ResultDescs == {objects[i].java_name : i \in 1..Len(objects)}

Distinct(seq) == \A i, j \in 1..Len(seq) : seq[i] = seq[j] => i = j

\* a turn of the loop of generate_support_types pops a descriptor: one not
\* yet processed is marked processed, one processed before is only dropped
PopMarksOrSkips ==
    (pc = "gen_search" /\ search_object_types # <<>>) =>
        /\ Top \in already_generated'
        /\ Top \in already_generated =>
              /\ search_object_types' = Below
              /\ objects' = objects
              /\ types' = types
              /\ already_generated' = already_generated

\* every descriptor that the configuration or a class file under a root of
\* the classpath names: a finite set
AllDescsOf(class_file) ==
    {class_file.this_class}
        \cup {Replace(class_file.super_class[i], ".", "/") :
                 i \in 1..Len(class_file.super_class)}
        \cup {Replace(class_file.interfaces[i], ".", "/") :
                 i \in 1..Len(class_file.interfaces)}
        \cup UNION {UserObjectsOf(class_file.methods[i]) :
                       i \in 1..Len(class_file.methods)}

FiniteUniverse ==
    Wrapped \cup UNION {AllDescsOf(classpath[r].files[path]) :
                           <<r, path>> \in {rp \in (1..Len(classpath)) \X
                                                   UNION {DOMAIN classpath[q].files :
                                                             q \in 1..Len(classpath)} :
                                               rp[2] \in DOMAIN classpath[rp[1]].files}}

\* the descriptors of the universe that are not processed yet
Unprocessed == Cardinality(FiniteUniverse \ already_generated)

\* a turn of the loop that does not leave the loop processes a descriptor
\* of the universe that was not processed, or else shortens the work stack
\* and processes nothing
LoopTurnDecreases ==
    (pc = "gen_search" /\ pc' = "gen_search") =>
        \/ Unprocessed' < Unprocessed
        \/ /\ Unprocessed' = Unprocessed
           /\ Len(search_object_types') < Len(search_object_types)

\* C6: generate_support_types comes to an end whatever references the public
\* methods and the supertypes of the classes make to each other: the pair of
\* the number of unprocessed descriptors of the finite universe and the
\* length of the work stack decreases at every turn of the loop, in the
\* lexicographic order; a descriptor popped is marked processed if it was
\* not and skipped if it was, and no descriptor is pushed as a new type
\* twice.
C6_Terminates ==
    /\ [][LoopTurnDecreases /\ PopMarksOrSkips]_vars
    /\ [](/\ already_generated \subseteq FiniteUniverse
          /\ Distinct(pushed_new)
          /\ Distinct(objects))

\* class A is wrapped and class C is a native class without native methods;
\* the public methods of each refer to the other and A is the super class
\* of C; C was pushed as a new type, A was pushed again as the super class
\* of C, and the loop has ended with one Object for each
C6_Witness ==
    /\ pc = "gen_objects"
    /\ {ClassA, ClassC} \subseteq Wrapped
    /\ ClassC \in PublicRefs(ClassA) /\ ClassA \in PublicRefs(ClassC)
    /\ ClassFileOf(ClassC).super_class = <<ClassA>>
    /\ pushed_new = <<ClassC>>
    /\ {ClassA, ClassC} \subseteq ResultDescs

\* C7: when generate_support_types has returned its objects, no two of them
\* have the same descriptor, and their descriptors are the least set that
\* contains the seed set and, for each member that is a class to wrap or a
\* native class, the class and the user-defined object types in the
\* arguments and results of its public non-native methods.
C7_ResultIsTheClosure ==
    pc = "gen_objects" =>
        /\ \A i, j \in 1..Len(objects) :
              objects[i].java_name = objects[j].java_name => i = j
        /\ ResultDescs = Closure(SeedSet)

\* the result holds a class that is not in the seed set, reached through the
\* public methods of a wrapped class, and a class that is not wrapped
C7_Witness ==
    /\ pc = "gen_objects"
    /\ SeedSet # {}
    /\ ResultDescs \ SeedSet # {}
    /\ ResultDescs \ Wrapped # {}
    /\ Len(objects) = 3

\* C8: an Object has methods or interfaces only if its descriptor is a class
\* to wrap or a native class, and every known type and every type on the
\* work stack is in the seed set or is referred to by the public methods of
\* a processed class that is wrapped: what the methods of the other classes
\* refer to is not added.
C8_OnlyWrappedClassesAreFollowed ==
    /\ \A i \in 1..Len(objects) :
          (objects[i].methods # <<>> \/ objects[i].interfaces # <<>>)
              => objects[i].java_name \in Wrapped
    /\ \A d \in types \cup {search_object_types[i] : i \in 1..Len(search_object_types)} :
          \/ d \in SeedSet
          \/ \E w \in Wrapped \cap already_generated : d \in PublicRefs(w)

\* the result holds a bare Object for a class that is not wrapped, whose
\* class file is present and has a public method that refers to a class
\* that is not known, and an Object with methods for a wrapped class
C8_Witness ==
    /\ pc = "gen_objects"
    /\ \E i \in 1..Len(objects) :
          /\ objects[i].java_name \notin Wrapped
          /\ objects[i].methods = <<>> /\ objects[i].interfaces = <<>>
          /\ HasClassFile(objects[i].java_name)
          /\ PublicRefs(objects[i].java_name) \ types # {}
    /\ \E i \in 1..Len(objects) :
          objects[i].methods # <<>> /\ objects[i].interfaces # <<>>

----------------------------------------------------------------------------
(* C11 *)

\* the marker types emitted for the exception descriptor d
MarkersFor(d) == {k \in 1..Len(marker_types) : marker_types[k].ex_class_name = d}

\* C11 as stated: one marker type is emitted for each exception descriptor
\* that occurs in some exception set, none for any other descriptor, and the
\* marker types of two different descriptors are two different types, that
\* is, types of different names.
C11_OneMarkerPerDescriptor ==
    pc = "exc_done" =>
        /\ \A d \in UNION exception_sets : Cardinality(MarkersFor(d)) = 1
        /\ \A k \in 1..Len(marker_types) :
              marker_types[k].ex_class_name \in UNION exception_sets
        /\ \A k, l \in 1..Len(marker_types) :
              marker_types[k].ex_class_name # marker_types[l].ex_class_name
                  => marker_types[k].ident # marker_types[l].ident

----------------------------------------------------------------------------
(* C12 *)

\* the throwable is an instance of a member of the exception set
InstanceOfMember(throwable, exception_set) ==
    ~throwable.is_null /\ throwable.classes \cap exception_set # {}

\* C12 as stated: catch of the sum type of an exception set, called with a
\* throwable that is null or an instance of no member of the set, returns the
\* error with that same throwable, without a panic and with nothing thrown;
\* and catch of a marker type returns success only for a throwable that is
\* not null and is an instance of the exception class of the marker.
C12_CatchPropagatesUnknown ==
    pc = "catch_done" =>
        /\ (/\ catch_of.kind = "Sum"
            /\ ~InstanceOfMember(thrown, sum_types[catch_of.index].exception_set))
              => /\ caught = CatchErr(thrown)
                 /\ env_thrown = <<>>
        /\ (catch_of.kind = "Marker" /\ caught.kind = "Ok")
              => /\ ~thrown.is_null
                 /\ marker_types[catch_of.index].ex_class_name \in thrown.classes

----------------------------------------------------------------------------
(* C13 *)

\* the exceptions thrown into the Java caller, as a set
EnvThrown == {env_thrown[i] : i \in 1..Len(env_thrown)}

\* C13: no panic leaves an exported ABI function: wherever the glue panics
\* (from_env, the conversion of the arguments, the developer's method, the
\* conversion of the result), the function returns the null placeholder and a
\* java/lang/RuntimeException "panic: <message>" is thrown into the caller
C13_NoPanicLeavesTheFunction ==
    /\ ~escaped
    /\ (pc \in {"ffi_returned", "ffi_escaped"} /\ panics # <<>>) =>
          /\ ffi_return = "Null"
          /\ \E p \in {panics[i] : i \in 1..Len(panics)} :
                /\ p.type \in {"&str", "String"}
                /\ [class |-> RuntimeException, msg |-> <<"p","a","n","i","c",":"," ">> \o p.msg]
                      \in EnvThrown

\* the part of C13 that the code keeps: a panic of the developer's method with
\* a string payload, when the RuntimeException can be thrown
C13_MethodPanicIsConverted ==
    (/\ pc = "ffi_returned"
     /\ impl_result.kind = "Panic"
     /\ impl_result.payload.type \in {"&str", "String"}) =>
        /\ ffi_return = "Null"
        /\ env_thrown = <<[class |-> RuntimeException,
                           msg |-> <<"p","a","n","i","c",":"," ">> \o impl_result.payload.msg]>>

----------------------------------------------------------------------------
(* C14 *)

\* the exported function is over: it has returned, or a panic has left it
FfiOver == pc \in {"ffi_returned", "ffi_escaped"}

PanicThrown == <<[class |-> RuntimeException,
                  msg |-> ThrownMessage(panics[Len(panics)])]>>

----------------------------------------------------------------------------
(* C17 *)

\* the roots in the configured order, the single root "." when none is configured
ConsultedRoots == IF classpath = <<>> THEN <<cwd>> ELSE classpath

\* the classes requested, and the file searched for a class: its name with
\* the package separators replaced by path separators, and .class
Requested == [k \in 1..Len(native_classes) |-> Replace(native_classes[k], ".", "/")]
SearchedPath(class) == class \o <<".","c","l","a","s","s">>

\* the first root that contains the file of the class, 0 when there is none
Contains(i, class) ==
    ConsultedRoots[i].is_dir /\ SearchedPath(class) \in DOMAIN ConsultedRoots[i].files
FirstHit(class) ==
    IF \E i \in 1..Len(ConsultedRoots) : Contains(i, class)
    THEN CHOOSE i \in 1..Len(ConsultedRoots) :
            Contains(i, class) /\ \A j \in 1..(i - 1) : ~Contains(j, class)
    ELSE 0

\* the search of the class consults a jar file: one stands before the first hit
IsJar(i) == ConsultedRoots[i].is_file /\ ConsultedRoots[i].extension = <<"j","a","r">>
ConsultsJar(class) ==
    \E i \in 1..Len(ConsultedRoots) :
        IsJar(i) /\ (FirstHit(class) = 0 \/ i < FirstHit(class))

\* the path of every requested class under its first hit
FirstHits == [k \in 1..Len(Requested) |->
                 [root |-> FirstHit(Requested[k]), path |-> SearchedPath(Requested[k])]]

\* the error names the searched path of a requested class that no root contains
NamesMissingPath(error) ==
    \E k \in 1..Len(Requested) :
        /\ FirstHit(Requested[k]) = 0
        /\ Len(error) >= Len(SearchedPath(Requested[k]))
        /\ SubSeq(error, Len(error) - Len(SearchedPath(Requested[k])) + 1, Len(error))
              = SearchedPath(Requested[k])

EndsSearch(k) == ConsultsJar(Requested[k]) \/ FirstHit(Requested[k]) = 0
FirstEnd == CHOOSE k \in 1..Len(Requested) :
                EndsSearch(k) /\ \A j \in 1..(k - 1) : ~EndsSearch(j)

\* the whole outcome of search_classpath: the first requested class whose
\* search consults a jar file, or finds the file in no root, ends the call,
\* with a panic when a jar file is consulted and with the error otherwise
SearchEndsAtFirstJarOrMiss ==
    pc = "search_done" =>
        IF \A k \in 1..Len(Requested) : ~EndsSearch(k)
        THEN search_result.kind = "Ok" /\ search_result.paths = FirstHits
        ELSE IF ConsultsJar(Requested[FirstEnd])
        THEN search_result.kind = "Panic" /\ search_result.paths = <<>>
        ELSE /\ search_result.kind = "Err"
             /\ search_result.paths = <<>>
             /\ search_result.error = <<"c","o","u","l","d"," ","n","o","t"," ","f","i","n","d"," ","c","l","a","s","s"," ","i","n"," ","c","l","a","s","s","p","a","t","h",":"," ">>
                                         \o SearchedPath(Requested[FirstEnd])

C17_WitnessDefaultRoot ==
    /\ pc = "search_done"
    /\ classpath = <<>>
    /\ native_classes = <<<<"p",".","A">>>>
    /\ search_result.kind = "Ok"
    /\ search_result.paths = <<[root |-> 1, path |-> <<"p","/","A",".","c","l","a","s","s">>]>>

----------------------------------------------------------------------------
(* C15 and C16 *)

\* the class file of a descriptor can be located, read and parsed
Obtainable(d) ==
    /\ HasClassFile(d)
    /\ ClassToPath(d) \notin classpath[1].unreadable \cup classpath[1].malformed

NativeDescs == {JavaDescFrom(native_classes[i]) : i \in 1..Len(native_classes)}

\* the run is before the step that creates the output file
BeforeOutput == pc \in {"gen_start", "gen_natives", "gen_search", "gen_objects"}

\* C15: when a native class or a class to wrap cannot be located, read or
\* parsed, generate returns an error and has not created, truncated or
\* written the output file: the file is as it was until every lookup, parse
\* and extraction and the closure of the types have succeeded
C15_NoOutputBeforeSuccess ==
    /\ BeforeOutput => output_file = file_before
    /\ (pc = "gen_failed" /\ gen_result.from \in {"search_classpath", "read_class"}) =>
          /\ gen_result.kind = "Err"
          /\ output_file = file_before
    /\ pc \in {"gen_objects", "gen_created", "gen_done"} =>
          /\ \A d \in NativeDescs : Obtainable(d)
          /\ \A d \in already_generated \cap Wrapped : Obtainable(d)
          /\ search_object_types = <<>>
    /\ gen_result.kind = "Ok" => pc = "gen_done"

\* class p/C is no class file: the run has built an object and then failed on
\* p/C, and the output file of the earlier run is as it was
C15_Witness ==
    /\ pc = "gen_failed"
    /\ gen_result = GenErr("read_class", <<"p","a","r","s","e"," ","e","r","r","o","r">>)
    /\ classpath[1].malformed = {<<"p","/","C",".","c","l","a","s","s">>}
    /\ objects # <<>>
    /\ file_before = OldFile
    /\ output_file = OldFile

\* C16: a run ends with the whole rendered text in the output file, or it
\* fails and leaves the output file as it was: no empty, truncated or
\* partly written file is left by a failure to create or to write it
C16_OutputIsAtomic ==
    /\ pc = "gen_done" => output_file = WholeFile
    /\ pc = "gen_failed" => output_file = file_before

\* what the code keeps of C16: the text is rendered before the file is
\* touched, a failure to create the file leaves it as it was, and a run that
\* returns Ok has written the whole text
C16_WholeTextOnSuccess ==
    /\ gen_result.kind = "Ok" => output_file = WholeFile
    /\ (pc = "gen_failed" /\ gen_result.from = "File::create") => output_file = file_before

----------------------------------------------------------------------------
(* C18 *)

\* the characters the escape table gives no image of their own
Unnamed(ch) == ch \notin NamedChars

\* the UTF-16 code units of a scalar value: itself, or the surrogate pair
Utf16Units(scalar) ==
    IF scalar < 65536 THEN <<scalar>>
    ELSE <<55296 + ((scalar - 65536) \div 1024), 56320 + ((scalar - 65536) % 1024)>>

\* the four lower-case hexadecimal digits of a code unit
FourHexDigits(unit) ==
    <<HexDigits[(unit \div 4096) + 1], HexDigits[((unit \div 256) % 16) + 1],
      HexDigits[((unit \div 16) % 16) + 1], HexDigits[(unit % 16) + 1]>>

\* "_0wxyz" for each code unit of the character
RECURSIVE EscapedUnits(_)
EscapedUnits(units) ==
    IF units = <<>> THEN <<>>
    ELSE <<"_", "0">> \o FourHexDigits(Head(units)) \o EscapedUnits(Tail(units))

RECURSIVE UnnamedImages(_)
UnnamedImages(s) ==
    IF s = <<>> THEN <<>>
    ELSE EscapedUnits(Utf16Units(CodePoint(Head(s)))) \o UnnamedImages(Tail(s))

\* C18: a character that is not ASCII alphanumeric, '/', '_', ';' or '[' (nor
\* the package separator '.') is escaped as "_0" and the four lower-case
\* hexadecimal digits of its UTF-16 code unit, a character outside the basic
\* plane as two such sequences, one per surrogate; U+2764 gives "_02764"
C18_FourDigitsPerCodeUnit ==
    (pc = "abi_done" /\ \A i \in 1..Len(name) : Unnamed(name[i])) =>
        /\ abi_name = UnnamedImages(name)
        /\ name = <<"U+2764">> => abi_name = <<"_","0","2","7","6","4">>

\* what the code keeps of C18: a character whose scalar value takes four
\* hexadecimal digits is escaped as "_0" and these digits
C18_FourDigitScalars ==
    (/\ pc = "abi_done"
     /\ \A i \in 1..Len(name) :
           Unnamed(name[i]) /\ CodePoint(name[i]) \in 4096..65535) =>
        /\ abi_name = UnnamedImages(name)
        /\ name = <<"U+2764">> => abi_name = <<"_","0","2","7","6","4">>

----------------------------------------------------------------------------
(* C19 *)

\* the string is made of characters in [A-Za-z0-9] only
Alphanumeric(s) ==
    \A i \in 1..Len(s) : s[i] \in AsciiLower \cup AsciiUpper \cup AsciiDigit

\* an underscore followed by 0, 1, 2 or 3
HasEscape(s) ==
    \E i \in 1..(Len(s) - 1) : s[i] = "_" /\ s[i + 1] \in {"0", "1", "2", "3"}

\* C19: escaping yields a result for every string; on a string made of
\* characters in [A-Za-z0-9] only it is the identity, so escaping the result
\* again changes nothing, and the result has no underscore followed by 0, 1,
\* 2 or 3
C19_IdentityOnAlphanumeric ==
    /\ pc = "abi_start" => ENABLED EscapeName
    /\ (pc = "abi_done" /\ Alphanumeric(name)) =>
          /\ abi_name = name
          /\ JniAbiFrom(abi_name) = abi_name
          /\ ~HasEscape(abi_name)

\* "Z0" is escaped to itself
C19_Witness ==
    /\ pc = "abi_done"
    /\ name = <<"Z","0">>
    /\ abi_name = <<"Z","0">>

----------------------------------------------------------------------------
(* C20 *)

\* the supported byte array and the placeholder
JavaByteArrayName == TypeName("jaffi_support::arrays", <<"J","a","v","a","B","y","t","e","A","r","r","a","y">>, TRUE)
UnsupportedArrayName == TypeName("jaffi_support::arrays", <<"U","n","s","u","p","p","o","r","t","e","d","A","r","r","a","y">>, TRUE)

\* an array of bytes in one dimension
IsByteArray(field_type) == field_type.dimensions = 1 /\ field_type.base = "B"

\* the type an array resolves to
Resolved(field_type) ==
    IF IsByteArray(field_type) THEN JavaByteArrayName ELSE UnsupportedArrayName

\* C20: an array type resolves to the supported byte array exactly when it has
\* one dimension and bytes as elements; every other array, of two or more
\* dimensions or of any other element type, object references included,
\* resolves to the UnsupportedArray placeholder, in the FFI type and in the
\* surface type alike
C20_OnlyByteArrays ==
    (pc = "ext_done" /\ Len(functions) = 1) =>
        LET parameter == ext_methods[1].descriptor.parameters[1]
            result    == ext_methods[1].descriptor.result[1]
        IN  /\ parameter.dimensions >= 1 =>
                 /\ functions[1].arguments[1].ty = Resolved(parameter)
                 /\ functions[1].arguments[1].rs_ty = Resolved(parameter)
                 /\ (functions[1].arguments[1].ty = JavaByteArrayName
                        <=> IsByteArray(parameter))
            /\ result.dimensions >= 1 =>
                 /\ functions[1].result = Resolved(result)
                 /\ functions[1].rs_result = Resolved(result)

\* a method that takes byte[][] and returns byte[]: the argument is the
\* placeholder and the result the byte array
C20_Witness ==
    /\ pc = "ext_done"
    /\ ext_methods[1].descriptor.parameters = <<ArrayTy(2, "B")>>
    /\ ext_methods[1].descriptor.result = <<ArrayTy(1, "B")>>
    /\ functions[1].arguments[1].ty = UnsupportedArrayName
    /\ functions[1].arguments[1].rs_ty = UnsupportedArrayName
    /\ functions[1].result = JavaByteArrayName
    /\ functions[1].rs_result = JavaByteArrayName

----------------------------------------------------------------------------
(* C21 *)

\* the native classes that are found and parsed and have no native method
NativeWithoutNativeMethods ==
    {d \in NativeDescs : Obtainable(d) /\ MethodsOf(d, {"NATIVE"}, {}) = {}}

\* the trait/function groups of the class d
GroupsOf(d) == {k \in 1..Len(class_ffis) : class_ffis[k].class_name = d}

\* the descriptors of the classes to wrap, the seeds of the configuration
WrapSeeds == {JavaDescFrom(classes_to_wrap[i]) : i \in 1..Len(classes_to_wrap)}

\* C21: a requested native class that is found and parsed and has no native
\* method is no error: once the native classes are handled, the search of
\* the native classes has returned Ok and generate has returned no error at
\* that stage, the class has no trait/function group, and it has added
\* nothing to the seed set, which holds the class only when it is a class to
\* wrap or a type of a native method of another class; the run goes on to
\* generate_support_types. A native class that no root holds gives the error
\* of search_classpath instead.
C21_NoNativeMethodsIsNoError ==
    /\ \A d \in NativeWithoutNativeMethods :
          pc # "gen_start" =>
             /\ search_result.kind = "Ok"
             /\ gen_result.from \notin {"search_classpath", "read_class"}
                   \/ already_generated # {}
             /\ GroupsOf(d) = {}
             /\ pc = "gen_natives" =>
                   argument_types =
                      WrapSeeds \cup UNION {NativeRefs(e) : e \in NativeDescs \ {d}}
    /\ \A d \in NativeDescs :
          (pc # "gen_start" /\ ~HasClassFile(d)) =>
             /\ pc = "gen_failed"
             /\ search_result.kind = "Err"
             /\ gen_result.kind = "Err" /\ gen_result.from = "search_classpath"

\* class p/C is the only class requested, as a native class, and it has no
\* native method: the run has ended with Ok and the whole text written,
\* without a trait/function group and without an Object
C21_Witness ==
    /\ pc = "gen_done"
    /\ native_classes = <<<<"p",".","C">>>>
    /\ classes_to_wrap = <<>>
    /\ ClassC \in NativeWithoutNativeMethods
    /\ class_ffis = <<>>
    /\ argument_types = {}
    /\ objects = <<>>
    /\ gen_result = GenOk

----------------------------------------------------------------------------
(* C22 *)

\* the calls JNI_OnLoad has made to the function f
LoadCallsOf(f) == {k \in 1..Len(load_calls) : load_calls[k].call = f}

\* the calls JNI_OnLoad has made to the configured load-hook function
UserLoadCalls ==
    {k \in 1..Len(load_calls) :
        user_on_load_fn # <<>> /\ load_calls[k].call = <<user_on_load_fn[1]>>}

\* C22: when JNI_OnLoad has returned, it has registered the panic handler
\* once, it has called the configured load-hook function once when one is
\* configured and has made no other call when none is, and it has returned
\* the JNI version.
C22_LoadHookIsInvokedOnce ==
    pc = "load_done" =>
        /\ Cardinality(LoadCallsOf(<<"exceptions", "register_panic_hook">>)) = 1
        /\ Cardinality(UserLoadCalls) = Len(user_on_load_fn)
        /\ Len(load_calls) = 1 + Len(user_on_load_fn)
        /\ load_return = "jni::sys::JNI_VERSION_1_8"

\* what the code keeps of C22: JNI_OnLoad registers the panic handler once,
\* makes no other call and returns the JNI version, whatever is configured
C22_HookRegistersAndReturnsVersion ==
    pc = "load_done" =>
        /\ load_calls = <<[call |-> <<"exceptions", "register_panic_hook">>, arg |-> "vm"]>>
        /\ load_return = "jni::sys::JNI_VERSION_1_8"

----------------------------------------------------------------------------
(* C23 *)

\* the search path of the run holds a jar file
HasJarEntry == \E i \in 1..Len(ConsultedRoots) : IsJar(i)

\* C23: whenever the search path holds a jar file, wherever it stands in the
\* search order, the search of the classes does not return: the run aborts
\* on the jar entry, it neither skips it nor treats it as a directory.
C23_JarEntryAborts ==
    (pc = "search_done" /\ HasJarEntry) => search_result.kind = "Panic"

\* what the code keeps of C23: a search that reaches a jar file aborts, so
\* a call that returns, with the paths or with the error, has consulted none
C23_ConsultedJarAborts ==
    (pc = "search_done" /\ search_result.kind # "Panic") =>
        \A k \in 1..Len(Requested) :
            (\A j \in 1..(k - 1) : FirstHit(Requested[j]) # 0)
                => ~ConsultsJar(Requested[k])

----------------------------------------------------------------------------
(* C24 and C26 *)

\* the function ABI name of the i-th selected method, without the class, and
\* its snake-case normalization
FfiNameOfSelected(i) ==
    IF Cardinality(GroupOf(i)) > 1 THEN LongFfiName(i) ELSE ShortFfiName(i)
NormalizedName(i) == ToSnakeCase(FfiNameOfSelected(i))

\* the selected methods before the i-th that produce the same normalized name
EarlierSame(i) == {j \in 1..(i - 1) : NormalizedName(j) = NormalizedName(i)}

\* the position, from 0, of the i-th selected method in the method table of
\* the class file
TableIndex(i) ==
    (CHOOSE t \in 1..Len(ext_class_file.methods) :
        ext_class_file.methods[t] = ext_methods[i]) - 1

\* C24: the dispatch identifier of a method is the snake-case normalization
\* of its function ABI name; the first method of an extraction that produces
\* a normalized name keeps it, and each later method that produces the same
\* name gets the name, "_" and the position of the method in the method
\* table of the class.
C24_IndexInMethodTable ==
    pc = "ext_done" =>
        \A i \in 1..Len(ext_methods) :
            functions[i].rust_method_name =
                IF EarlierSame(i) = {} THEN NormalizedName(i)
                ELSE NormalizedName(i) \o <<"_">> \o Decimal(TableIndex(i))

\* what the code keeps of C24: the number appended is the position of the
\* method, from 0, among the selected methods
C24_IndexAmongSelected ==
    pc = "ext_done" =>
        \A i \in 1..Len(ext_methods) :
            functions[i].rust_method_name =
                IF EarlierSame(i) = {} THEN NormalizedName(i)
                ELSE NormalizedName(i) \o <<"_">> \o Decimal(i - 1)

\* C26: after extract_function_info the dispatch identifiers of the methods
\* of one class are pairwise distinct, for every list of selected methods.
C26_DispatchNamesDistinct ==
    pc = "ext_done" =>
        \A i, j \in 1..Len(functions) :
            functions[i].rust_method_name = functions[j].rust_method_name => i = j

\* what the code keeps of C26: two methods that produce the same normalized
\* name get different dispatch identifiers
C26_SameNormalizedNameDistinct ==
    pc = "ext_done" =>
        \A i, j \in 1..Len(functions) :
            (i # j /\ NormalizedName(i) = NormalizedName(j))
                => functions[i].rust_method_name # functions[j].rust_method_name

----------------------------------------------------------------------------
(* C25 *)

\* the super class and the declared interfaces of the class d, as descriptors
\* in the order of the class file
Supertypes(d) ==
    LET declared == ClassFileOf(d).super_class \o ClassFileOf(d).interfaces
    IN  [i \in 1..Len(declared) |-> Replace(declared[i], ".", "/")]

\* the supertypes of d that are in the set S, in the same order
RECURSIVE SupertypesIn(_, _)
SupertypesIn(supertypes, S) ==
    IF supertypes = <<>> THEN <<>>
    ELSE (IF Head(supertypes) \in S THEN <<Head(supertypes)>> ELSE <<>>)
             \o SupertypesIn(Tail(supertypes), S)

\* the name under which a descriptor is recorded as an interface
RecordedAs(d) == TypeNameFromStr(ToUpperCamelCase(d), FALSE)

\* the turn of the loop processes the class on top of the stack as a wrapped
\* class whose class file is found
ProcessesWrapped ==
    /\ pc = "gen_search" /\ pc' = "gen_search"
    /\ search_object_types # <<>>
    /\ Top \notin already_generated
    /\ Top \in Wrapped

\* the turn records and pushes the supertypes of the class that are known
\* once the types of its methods are added, and no other; the types it adds
\* are types of its methods
RecordsKnownSupertypes ==
    ProcessesWrapped =>
        LET known == SupertypesIn(Supertypes(Top), types')
            made  == objects'[Len(objects')]
            stack == search_object_types'
        IN  /\ Len(objects') = Len(objects) + 1
            /\ made.java_name = Top
            /\ made.interfaces = [i \in 1..Len(known) |-> RecordedAs(known[i])]
            /\ Len(stack) >= Len(known)
            /\ SubSeq(stack, Len(stack) - Len(known) + 1, Len(stack)) = known
            /\ \A i \in Len(Below) + 1 .. Len(stack) - Len(known) : stack[i] \notin types
            /\ types' \ types \subseteq PublicRefs(Top)

\* the result: every interface recorded on an Object is the name of an Object
\* of the result, and a supertype with an Object is a seed or a type of a
\* public method of a processed wrapped class
SupertypesInResult ==
    pc = "gen_objects" =>
        /\ \A i \in 1..Len(objects) : \A k \in 1..Len(objects[i].interfaces) :
              \E j \in 1..Len(objects) :
                  /\ objects[i].interfaces[k] = RecordedAs(objects[j].java_name)
                  /\ objects[j].java_name
                        \in {Supertypes(objects[i].java_name)[n] :
                                n \in 1..Len(Supertypes(objects[i].java_name))}
        /\ \A d \in ResultDescs \cap Wrapped : \A n \in 1..Len(Supertypes(d)) :
              Supertypes(d)[n] \in ResultDescs =>
                  \/ Supertypes(d)[n] \in SeedSet
                  \/ \E w \in Wrapped \cap already_generated :
                        Supertypes(d)[n] \in PublicRefs(w)

\* C25: while it processes a wrapped class, generate_support_types records a
\* super class or declared interface as implemented, and pushes it on the
\* work stack, if and only if it is a known type at that moment, and adds no
\* supertype to the known types; so every interface recorded on an Object is
\* an Object of the result, and a supertype that is in no seed and in no
\* collected method signature gets no Object.
C25_SupertypesOnlyIfKnown ==
    /\ [][RecordsKnownSupertypes]_vars
    /\ []SupertypesInResult

\* classes p/A and p/C are wrapped and no method refers to p/B; p/C extends
\* p/A and implements p/B: the Object of p/C records p/A only, and p/B has no
\* Object
C25_Witness ==
    /\ pc = "gen_objects"
    /\ Wrapped = {ClassA, ClassC}
    /\ Supertypes(ClassC) = <<ClassA, ClassB>>
    /\ ClassB \notin ResultDescs
    /\ \E i \in 1..Len(objects) :
          /\ objects[i].java_name = ClassC
          /\ objects[i].interfaces = <<RecordedAs(ClassA)>>

----------------------------------------------------------------------------
(* C27 *)

\* C27: exception_name_from_set gives two different exception sets two
\* different names: the sum types emitted for different sets have different
\* names, and two methods that declare different sets have different error
\* types, also when members of different packages have the same simple class
\* name and when the concatenations of different sets spell the same text.
C27_SumTypeNamesInjective ==
    pc = "exc_done" =>
        /\ \A i, j \in 1..Len(sum_types) :
              sum_types[i].name = sum_types[j].name
                  => sum_types[i].exception_set = sum_types[j].exception_set
        /\ \A i, j \in 1..Len(exc_functions) :
              (error_types[i] # <<>> /\ error_types[i] = error_types[j])
                  => exc_functions[i].exceptions = exc_functions[j].exceptions

----------------------------------------------------------------------------
(* C28 *)

\* what a result says of each descriptor: its methods and the set of the
\* interfaces recorded
Summary(result) ==
    {[java_name  |-> result[i].java_name,
      methods    |-> result[i].methods,
      interfaces |-> {result[i].interfaces[k] : k \in 1..Len(result[i].interfaces)}] :
        i \in 1..Len(result)}

\* the same without the interfaces
DescriptorsAndMethods(result) ==
    {[java_name |-> result[i].java_name, methods |-> result[i].methods] :
        i \in 1..Len(result)}

\* the result of generate_support_types on the same seed set when the seed
\* set, and every set of new types, is put on the work stack in ascending
\* order
AscendingRun ==
    SupportTypesLoop(Roots(classpath, cwd),
                     ClassesToWrap(classes_to_wrap, native_classes),
                     Ascending(argument_types), argument_types, {}, <<>>)

\* C28: the result of generate_support_types is determined by its inputs
\* alone: whatever the order in which the seed set is put on the work stack,
\* the result has the descriptors, and for each of them the methods and the
\* set of recorded interfaces, of the run that takes the seeds in ascending
\* order.
C28_ResultIndependentOfOrder ==
    pc = "gen_objects" =>
        /\ AscendingRun.ok
        /\ Summary(objects) = Summary(AscendingRun.objects)

\* what the code keeps of C28: the descriptors of the result and the methods
\* of each Object do not depend on the order
C28_DescriptorsAndMethodsIndependent ==
    pc = "gen_objects" =>
        /\ AscendingRun.ok
        /\ DescriptorsAndMethods(objects) = DescriptorsAndMethods(AscendingRun.objects)

----------------------------------------------------------------------------
(* C29 *)

HandlerSteps == <<"exception_occurred", "exception_clear", "catch">>

WrapperDone == pc = "wrap_done"

\* the call into Java failed with a Java exception in a wrapper method of a
\* method that declares exceptions
ThrewIntoHandler == call_result.kind = "JavaException" /\ wrapper.exceptions # {}

\* the call failed and no handler takes the failure
FailedWithoutHandler ==
    \/ call_result.kind = "Error"
    \/ call_result.kind = "JavaException" /\ wrapper.exceptions = {}

\* what follows the three steps: the error value with the object thrown and
\* nothing pending when catch matched, a panic when it did not
AfterCatch ==
    /\ jni_steps = HandlerSteps
    /\ thrown = call_result.thrown
    /\ IF caught.kind = "Ok"
       THEN /\ wrapper_return = WrapperErr(call_result.thrown, caught.variant)
            /\ pending = <<>>
       ELSE wrapper_return.kind = "Panic"

\* C29, as stated: when the call into Java of a wrapper method that declares
\* exceptions fails with a Java exception, the pending exception is fetched,
\* then cleared, then catch is attempted; when catch matches the method
\* returns the error value that holds the object thrown and nothing is
\* pending, otherwise it panics; it panics too when the call fails for
\* another reason or the method declares no exceptions.
C29_AsStated ==
    WrapperDone =>
        /\ ThrewIntoHandler => AfterCatch
        /\ FailedWithoutHandler => wrapper_return.kind = "Panic"

\* C29, amended: the steps of the handler are taken in the order fetch,
\* clear, catch, each only after the one before it succeeded, and only in a
\* wrapper method that declares exceptions whose call failed with a Java
\* exception; a fetch or a clear that fails ends the method with a panic and
\* leaves the exception pending; after the three steps the method returns
\* the error value that holds the object thrown, with nothing pending, when
\* catch matched, and panics otherwise; it panics without any of the steps
\* when the call fails for another reason or the method declares no
\* exceptions; an error value is returned in no other case.
C29_HandlerStepsInOrder ==
    /\ \E n \in 0..Len(HandlerSteps) : jni_steps = SubSeq(HandlerSteps, 1, n)
    /\ jni_steps # <<>> => ThrewIntoHandler
    /\ wrapper_return.kind = "Err" => ThrewIntoHandler
    /\ WrapperDone /\ ThrewIntoHandler =>
          \/ /\ wrapper_return = WrapperPanic(<<"e","r","r","o","r"," ","e","x","c","e","p","t","i","o","n","_","o","c","c","u","r","r","e","d">>)
             /\ jni_steps = SubSeq(HandlerSteps, 1, 1)
             /\ pending = <<call_result.thrown>>
          \/ /\ wrapper_return = WrapperPanic(<<"e","r","r","o","r"," ","e","x","c","e","p","t","i","o","n","_","c","l","e","a","r">>)
             /\ jni_steps = SubSeq(HandlerSteps, 1, 2)
             /\ pending = <<call_result.thrown>>
          \/ AfterCatch /\ pending = <<>>
    /\ WrapperDone /\ FailedWithoutHandler =>
          /\ wrapper_return = WrapperPanic(<<"e","r","r","o","r"," ","c","a","l","l","_","m","e","t","h","o","d">>)
          /\ jni_steps = <<>>

\* a wrapper method returned the error value of a matching catch
C29_Witness ==
    /\ WrapperDone
    /\ ThrewIntoHandler
    /\ jni_steps = HandlerSteps
    /\ caught.kind = "Ok"
    /\ wrapper_return = WrapperErr(call_result.thrown, caught.variant)
    /\ pending = <<>>

----------------------------------------------------------------------------
(* C30 *)

\* the descriptors of the configured classes, those to wrap and the native
\* ones
Configured ==
    {JavaDescFrom(classes_to_wrap[i]) : i \in 1..Len(classes_to_wrap)}
        \cup {JavaDescFrom(native_classes[i]) : i \in 1..Len(native_classes)}

\* the class file of a descriptor is under some search root
Locatable(desc) == SearchClasspath(Roots(classpath, cwd), <<desc>>).found

\* C30: generate_support_types searches the class file of a descriptor only
\* when the descriptor is one of classes_to_wrap or native_classes, and at
\* most once for each; the descriptors processed that are searched are
\* exactly the configured ones, so a type known only from an argument or a
\* result is never searched, and the run fails in the search only when the
\* class file of a configured class is under no root.
C30_LookupsOnlyForConfigured ==
    /\ \A i \in 1..Len(lookups) : lookups[i] \in Configured
    /\ \A i, j \in 1..Len(lookups) : lookups[i] = lookups[j] => i = j
    /\ {lookups[i] : i \in 1..Len(lookups)} = already_generated \cap Configured
    /\ (\A desc \in Configured : Locatable(desc)) => pc # "gen_failed"

\* a run ended with the objects although the class file of a type that was
\* processed, known from the methods of a wrapped class, is under no root
C30_Witness ==
    /\ pc = "gen_objects"
    /\ lookups # <<>>
    /\ \E desc \in already_generated :
          /\ desc \notin Configured
          /\ ~Locatable(desc)
          /\ \E i \in 1..Len(objects) : objects[i].java_name = desc

====
